---- MODULE Spec2Model ----
\* Model of crates/language_models/src/provider/open_ai_compatible.rs:
\* the credential state, the two-stage dynamic model discovery, the catalog
\* merge and the rate-limited streaming gateway of the OpenAI-compatible
\* provider.
EXTENDS Integers, Sequences, FiniteSets, Bags, TLC

VARIABLES
    id,                             \* State.id (provider id)
    settings,                       \* State.settings
    api_key_state,                  \* State.api_key_state
    dynamic_models,                 \* State.dynamic_models
    fetch_dynamic_models_task,      \* State.fetch_dynamic_models_task
    fetch_provider_selection_task,  \* State.fetch_provider_selection_task
    keychain,                       \* credential store: url -> Option<key>
    upstream,                       \* which remote backends answer (see ModelsBody)
    probe,                          \* a call of a fetch function: its reply and result
    nanogpt_api_key_env,            \* process environment: NANOGPT_API_KEY
    ops,                            \* set_api_key / authenticate calls, in call order
    settingsChanges,                \* number of settings notifications so far
    cycles,                         \* discovery tasks, in spawn order
    storesInOrder,                  \* history: stores have completed in call order
    handles,                        \* model handles built by create_language_model
    requests                        \* completion requests: a bag of request records

vars == <<id, settings, api_key_state, dynamic_models, fetch_dynamic_models_task,
          fetch_provider_selection_task, keychain, upstream, probe, nanogpt_api_key_env, ops,
          settingsChanges, cycles, storesInOrder, handles, requests>>

stateVars == <<id, settings, api_key_state, dynamic_models,
               fetch_dynamic_models_task, fetch_provider_selection_task>>
discoveryVars == <<keychain, upstream, probe, nanogpt_api_key_env, ops, settingsChanges, cycles,
                   storesInOrder>>
gatewayVars == <<handles, requests>>

----------------------------------------------------------------------------
\* Option<T>, strings

None == <<>>
Some(v) == <<v>>
IsSome(o) == o # <<>>
Unwrap(o) == o[1]
UnwrapOr(o, d) == IF o = <<>> THEN d ELSE o[1]

Range(s) == {s[i] : i \in 1..Len(s)}

\* The characters of the strings in use, in byte order.
Ascii == " -./0123456789@ABCDEFGHIJKLMNOPQRSTUVWXYZabcdefghijklmnopqrstuvwxyz"
Chars == {SubSeq(Ascii, i, i) : i \in 1..Len(Ascii)}
ByteOf == [c \in Chars |-> CHOOSE i \in 1..Len(Ascii) : SubSeq(Ascii, i, i) = c]
Byte(c) == ByteOf[c]

\* str::cmp: lexicographic on bytes; -1, 0, 1 for Less, Equal, Greater.
RECURSIVE StrCmp(_, _)
StrCmp(a, b) ==
    IF a = "" THEN (IF b = "" THEN 0 ELSE -1)
    ELSE IF b = "" THEN 1
    ELSE IF Byte(Head(a)) < Byte(Head(b)) THEN -1
    ELSE IF Byte(Head(a)) > Byte(Head(b)) THEN 1
    ELSE StrCmp(Tail(a), Tail(b))

\* slice::sort on strings: a stable sort, here by insertion.
RECURSIVE InsertString(_, _)
InsertString(sorted, x) ==
    IF sorted = <<>> THEN <<x>>
    ELSE IF StrCmp(x, sorted[Len(sorted)]) = -1
         THEN InsertString(SubSeq(sorted, 1, Len(sorted) - 1), x)
                  \o <<sorted[Len(sorted)]>>
         ELSE sorted \o <<x>>

RECURSIVE SortStringsFrom(_, _)
SortStringsFrom(sorted, rest) ==
    IF rest = <<>> THEN sorted
    ELSE SortStringsFrom(InsertString(sorted, Head(rest)), Tail(rest))

SortStrings(s) == SortStringsFrom(<<>>, s)

\* Vec::dedup: removes consecutive repeated elements.
RECURSIVE Dedup(_)
Dedup(s) ==
    IF Len(s) < 2 THEN s
    ELSE IF s[1] = s[2] THEN Dedup(Tail(s))
    ELSE <<s[1]>> \o Dedup(Tail(s))

----------------------------------------------------------------------------
\* Constants of the source

NANOGPT_PROVIDER_ID == "nanogpt"
NANOGPT_DEFAULT_MODEL_ID == "minimax/minimax-m2.5"
NANOGPT_DEFAULT_MAX_INPUT_TOKENS == 200000

\* u8::to_ascii_lowercase on each byte, as str::eq_ignore_ascii_case compares.
UpperChars == "ABCDEFGHIJKLMNOPQRSTUVWXYZ"
LowerChars == "abcdefghijklmnopqrstuvwxyz"
LowerOf ==
    [c \in Chars |->
        IF \E i \in 1..Len(UpperChars) : SubSeq(UpperChars, i, i) = c
        THEN LET i == CHOOSE j \in 1..Len(UpperChars) : SubSeq(UpperChars, j, j) = c
             IN SubSeq(LowerChars, i, i)
        ELSE c]
ToAsciiLowercase(c) == LowerOf[c]

RECURSIVE AsciiLower(_)
AsciiLower(s) ==
    IF s = "" THEN "" ELSE ToAsciiLowercase(Head(s)) \o AsciiLower(Tail(s))

eq_ignore_ascii_case(a, b) == AsciiLower(a) = AsciiLower(b)

----------------------------------------------------------------------------
\* ResolvedModel and the pure functions over it

from_available_model(model) ==
    [id |-> model.name,
     request_model |-> model.name,
     display_name |-> model.display_name,
     max_tokens |-> model.max_tokens,
     max_output_tokens |-> model.max_output_tokens,
     max_completion_tokens |-> model.max_completion_tokens,
     capabilities |-> model.capabilities,
     provider_override |-> None]

\* Capabilities inferred by comparing the tokens as they are spelled.
nanogpt_capabilities_case_sensitive(capabilities) ==
    LET has_capability(capability) ==
            \E i \in 1..Len(capabilities) : capabilities[i] = capability
        tools == has_capability("tool-calling")
    IN [tools |-> tools,
        images |-> has_capability("vision"),
        parallel_tool_calls |-> tools,
        prompt_cache_key |-> FALSE,
        chat_completions |-> TRUE]

nanogpt_capabilities(capabilities) ==
    LET has_capability(capability) ==
            \E i \in 1..Len(capabilities) :
                eq_ignore_ascii_case(capabilities[i], capability)
        tools == has_capability("tool-calling")
    IN [tools |-> tools,
        images |-> has_capability("vision"),
        parallel_tool_calls |-> tools,
        prompt_cache_key |-> FALSE,
        chat_completions |-> TRUE]

\* An entry that keeps the token limits as the upstream gives them.
catalog_entry_keeping_zero(key, model) ==
    LET request_model == UnwrapOr(model.model, key)
    IN [id |-> request_model,
        request_model |-> request_model,
        display_name |-> model.name,
        max_tokens |-> UnwrapOr(model.max_input_tokens, NANOGPT_DEFAULT_MAX_INPUT_TOKENS),
        max_output_tokens |-> model.max_output_tokens,
        max_completion_tokens |-> model.max_output_tokens,
        capabilities |-> nanogpt_capabilities(model.capabilities),
        provider_override |-> None]

\* One (key, model) pair of response.models.text to its catalog entry.
catalog_entry(key, model) ==
    LET request_model == UnwrapOr(model.model, key)
        max_tokens ==
            IF IsSome(model.max_input_tokens) /\ Unwrap(model.max_input_tokens) > 0
            THEN Unwrap(model.max_input_tokens)
            ELSE NANOGPT_DEFAULT_MAX_INPUT_TOKENS
        max_output_tokens ==
            IF IsSome(model.max_output_tokens) /\ Unwrap(model.max_output_tokens) > 0
            THEN model.max_output_tokens
            ELSE None
    IN [id |-> request_model,
        request_model |-> request_model,
        display_name |-> model.name,
        max_tokens |-> max_tokens,
        max_output_tokens |-> max_output_tokens,
        max_completion_tokens |-> max_output_tokens,
        capabilities |-> nanogpt_capabilities(model.capabilities),
        provider_override |-> None]

\* A loop that would keep the entries marked not visible.
RECURSIVE collect_models_keeping_hidden(_)
collect_models_keeping_hidden(text) ==
    IF text = <<>> THEN <<>>
    ELSE <<catalog_entry(Head(text).key, Head(text).model)>>
             \o collect_models_keeping_hidden(Tail(text))

\* The loop over response.models.text (a BTreeMap: ascending key order).
RECURSIVE collect_models(_)
collect_models(text) ==
    IF text = <<>> THEN <<>>
    ELSE IF Head(text).model.visible = Some(FALSE) THEN collect_models(Tail(text))
    ELSE <<catalog_entry(Head(text).key, Head(text).model)>>
             \o collect_models(Tail(text))

\* A comparator that orders the names without regard to case.
model_cmp_ignoring_case(left, right) ==
    IF left.request_model = NANOGPT_DEFAULT_MODEL_ID THEN -1
    ELSE IF right.request_model = NANOGPT_DEFAULT_MODEL_ID THEN 1
    ELSE StrCmp(AsciiLower(UnwrapOr(left.display_name, left.request_model)),
                AsciiLower(UnwrapOr(right.display_name, right.request_model)))

\* The comparator given to models.sort_by.
model_cmp(left, right) ==
    IF left.request_model = NANOGPT_DEFAULT_MODEL_ID THEN -1
    ELSE IF right.request_model = NANOGPT_DEFAULT_MODEL_ID THEN 1
    ELSE StrCmp(UnwrapOr(left.display_name, left.request_model),
                UnwrapOr(right.display_name, right.request_model))

RECURSIVE InsertModel(_, _)
InsertModel(sorted, x) ==
    IF sorted = <<>> THEN <<x>>
    ELSE IF model_cmp(x, sorted[Len(sorted)]) = -1
         THEN InsertModel(SubSeq(sorted, 1, Len(sorted) - 1), x)
                  \o <<sorted[Len(sorted)]>>
         ELSE sorted \o <<x>>

RECURSIVE SortModelsFrom(_, _)
SortModelsFrom(sorted, rest) ==
    IF rest = <<>> THEN sorted
    ELSE SortModelsFrom(InsertModel(sorted, Head(rest)), Tail(rest))

sort_models(models) == SortModelsFrom(<<>>, models)

status_is_success(status_code) == status_code >= 200 /\ status_code < 300

RECURSIVE SeqOfSet(_)
SeqOfSet(S) ==
    IF S = {} THEN <<>>
    ELSE LET x == CHOOSE y \in S : TRUE IN <<x>> \o SeqOfSet(S \ {x})

\* serde_json::from_str::<NanogptModelsResponse> on a body whose models.text
\* is the object json (key to record): the BTreeMap is read in ascending key
\* order, and a negative number in a u64 field fails the whole body (None).
NanogptModelsResponse_from_str(json) ==
    LET keys == SortStrings(SeqOfSet(DOMAIN json))
        negative(number) == IsSome(number) /\ Unwrap(number) < 0
    IN IF \E k \in DOMAIN json : \/ negative(json[k].max_input_tokens)
                                 \/ negative(json[k].max_output_tokens)
       THEN None
       ELSE Some([i \in 1..Len(keys) |-> [key |-> keys[i], model |-> json[keys[i]]]])

\* fetch_nanogpt_models on the reply of the models-listing endpoint.
\* reply: [sent, status, body]; sent = FALSE is a transport error, body = None
\* a body serde_json cannot decode.  Result: [ok, models].
fetch_nanogpt_models(reply) ==
    IF ~reply.sent THEN [ok |-> FALSE, models |-> <<>>]
    ELSE IF ~status_is_success(reply.status) THEN [ok |-> FALSE, models |-> <<>>]
    ELSE IF reply.body = None THEN [ok |-> FALSE, models |-> <<>>]
    ELSE [ok |-> TRUE, models |-> sort_models(collect_models(Unwrap(reply.body)))]

RECURSIVE available_providers(_)
available_providers(providers) ==
    IF providers = <<>> THEN <<>>
    ELSE IF Head(providers).available /\ Head(providers).provider # ""
         THEN <<Head(providers).provider>> \o available_providers(Tail(providers))
         ELSE available_providers(Tail(providers))

\* A provider listing kept in the order of the response.
fetch_nanogpt_model_providers_unsorted(reply) ==
    IF ~reply.sent THEN [ok |-> FALSE, providers |-> <<>>]
    ELSE IF ~status_is_success(reply.status) THEN [ok |-> FALSE, providers |-> <<>>]
    ELSE IF reply.body = None THEN [ok |-> FALSE, providers |-> <<>>]
    ELSE IF ~Unwrap(reply.body).supports_provider_selection
         THEN [ok |-> TRUE, providers |-> <<>>]
    ELSE [ok |-> TRUE,
          providers |-> Dedup(available_providers(Unwrap(reply.body).providers))]

\* fetch_nanogpt_model_providers on the reply of the routing-options endpoint.
\* Result: [ok, providers].
fetch_nanogpt_model_providers(reply) ==
    IF ~reply.sent THEN [ok |-> FALSE, providers |-> <<>>]
    ELSE IF ~status_is_success(reply.status) THEN [ok |-> FALSE, providers |-> <<>>]
    ELSE IF reply.body = None THEN [ok |-> FALSE, providers |-> <<>>]
    ELSE IF ~Unwrap(reply.body).supports_provider_selection
         THEN [ok |-> TRUE, providers |-> <<>>]
    ELSE [ok |-> TRUE,
          providers |->
              Dedup(SortStrings(available_providers(Unwrap(reply.body).providers)))]

\* The per-model future of the fan-out: a failed fetch gives no providers.
provider_options_for(model, reply) ==
    LET fetched == fetch_nanogpt_model_providers(reply)
    IN <<model, IF fetched.ok THEN fetched.providers ELSE <<>>>>

\* A routed entry that would be named after the upstream identifier only.
routed_model_named_by_request_model(model, provider) ==
    [id |-> model.request_model \o "@" \o provider,
     request_model |-> model.request_model,
     display_name |-> Some(model.request_model \o " via " \o provider),
     max_tokens |-> model.max_tokens,
     max_output_tokens |-> model.max_output_tokens,
     max_completion_tokens |-> model.max_completion_tokens,
     capabilities |-> model.capabilities,
     provider_override |-> Some(provider)]

routed_model(model, provider) ==
    [id |-> model.request_model \o "@" \o provider,
     request_model |-> model.request_model,
     display_name |->
         Some(UnwrapOr(model.display_name, model.request_model) \o " via " \o provider),
     max_tokens |-> model.max_tokens,
     max_output_tokens |-> model.max_output_tokens,
     max_completion_tokens |-> model.max_completion_tokens,
     capabilities |-> model.capabilities,
     provider_override |-> Some(provider)]

RECURSIVE routed_models(_, _)
routed_models(model, providers) ==
    IF providers = <<>> THEN <<>>
    ELSE IF Head(providers) = "" THEN routed_models(model, Tail(providers))
    ELSE <<routed_model(model, Head(providers))>>
             \o routed_models(model, Tail(providers))

\* An expansion that keeps a base model only when it has routing options.
RECURSIVE models_with_provider_options_routed_only(_)
models_with_provider_options_routed_only(provider_options) ==
    IF provider_options = <<>> THEN <<>>
    ELSE (IF Head(provider_options)[2] = <<>> THEN <<>>
          ELSE <<Head(provider_options)[1]>>
                   \o routed_models(Head(provider_options)[1], Head(provider_options)[2]))
             \o models_with_provider_options_routed_only(Tail(provider_options))

\* The loop building models_with_provider_options from the collected
\* (model, providers) pairs, in the order buffer_unordered yielded them.
RECURSIVE models_with_provider_options(_)
models_with_provider_options(provider_options) ==
    IF provider_options = <<>> THEN <<>>
    ELSE <<Head(provider_options)[1]>>
             \o routed_models(Head(provider_options)[1], Head(provider_options)[2])
             \o models_with_provider_options(Tail(provider_options))

is_nanogpt(provider_id) == provider_id = NANOGPT_PROVIDER_ID

\* A merge in which a static model takes the place of the entry with its id.
RECURSIVE push_available_models_overriding(_, _)
push_available_models_overriding(models, available_models) ==
    IF available_models = <<>> THEN models
    ELSE LET resolved_model == from_available_model(Head(available_models))
         IN IF ~\E i \in 1..Len(models) : models[i].id = resolved_model.id
            THEN push_available_models_overriding(models \o <<resolved_model>>,
                                                  Tail(available_models))
            ELSE push_available_models_overriding(
                     [i \in 1..Len(models) |->
                         IF models[i].id = resolved_model.id
                         THEN resolved_model ELSE models[i]],
                     Tail(available_models))

\* The loop of resolved_models over settings.available_models.
RECURSIVE push_available_models(_, _)
push_available_models(models, available_models) ==
    IF available_models = <<>> THEN models
    ELSE LET resolved_model == from_available_model(Head(available_models))
         IN IF ~\E i \in 1..Len(models) : models[i].id = resolved_model.id
            THEN push_available_models(models \o <<resolved_model>>,
                                       Tail(available_models))
            ELSE push_available_models(models, Tail(available_models))

resolved_models_of(provider_id, dynamic, available_models) ==
    push_available_models(
        IF is_nanogpt(provider_id) /\ dynamic # <<>> THEN dynamic ELSE <<>>,
        available_models)

resolved_models == resolved_models_of(id, dynamic_models, settings.available_models)

RECURSIVE find_default(_)
find_default(models) ==
    IF models = <<>> THEN None
    ELSE IF /\ Head(models).request_model = NANOGPT_DEFAULT_MODEL_ID
            /\ Head(models).provider_override = None
         THEN Some(Head(models))
         ELSE find_default(Tail(models))

first_model(models) == IF models = <<>> THEN None ELSE Some(models[1])

default_model_of_first(provider_id, models) == first_model(models)

\* default_model before the handle is built: Option<ResolvedModel>.
default_model_of(provider_id, models) ==
    IF is_nanogpt(provider_id)
    THEN IF IsSome(find_default(models)) THEN find_default(models)
         ELSE first_model(models)
    ELSE first_model(models)

default_model == default_model_of(id, resolved_models)

----------------------------------------------------------------------------
\* Bounds and the inputs of the environment

MaxOps == 2
MaxSettingsChanges == 1
MaxInFlight == 1

Keys == {"k1"}
EnvKeys == {None, Some("kenv")}
ProviderIds == {NANOGPT_PROVIDER_ID, "other"}

CatalogRecord(model, name, visible, max_in, max_out, capabilities) ==
    [model |-> model, name |-> name, visible |-> visible,
     max_input_tokens |-> max_in, max_output_tokens |-> max_out,
     capabilities |-> capabilities]

\* Bodies of the models-listing endpoint (models.text, in key order).
CatalogMain ==
    << [key |-> "a",
        model |-> CatalogRecord(None, Some("Zed"), None, Some(0), Some(0),
                                <<"TOOL-CALLING">>)],
       [key |-> "d",
        model |-> CatalogRecord(Some(NANOGPT_DEFAULT_MODEL_ID), Some("Default Model"),
                                Some(TRUE), Some(1000), Some(100), <<"vision">>)],
       [key |-> "h",
        model |-> CatalogRecord(Some("hidden"), None, Some(FALSE), None, None, <<>>)] >>

\* Two records with the same upstream identifier.
CatalogSame ==
    << [key |-> "a", model |-> CatalogRecord(Some("x"), None, None, None, None, <<>>)],
       [key |-> "b", model |-> CatalogRecord(Some("x"), None, None, None, None, <<>>)] >>

\* An upstream identifier of the form of a routed id.
CatalogRouted ==
    << [key |-> "b", model |-> CatalogRecord(Some("x"), None, None, None, None, <<>>)],
       [key |-> "c", model |-> CatalogRecord(Some("x@p"), None, None, None, None, <<>>)] >>

CatalogEmpty == <<>>

\* More models than routing-options requests may be in flight at once.
MaxWide == 9

WideKeys == <<"wa", "wb", "wc", "wd", "we", "wf", "wg", "wh", "wi", "wj", "wk", "wl">>

CatalogWide ==
    [i \in 1..MaxWide |->
        [key |-> WideKeys[i],
         model |-> CatalogRecord(None, None, None, None, None, <<>>)]]

Urls == {"u1", "u2"}

\* The remote backends: what models.text holds at each url.
Upstreams == {"main", "same"}

ModelsBody(backends, api_url) ==
    IF backends = "main"
    THEN (IF api_url = "u1" THEN CatalogMain ELSE CatalogRouted)
    ELSE IF backends = "wide" THEN CatalogWide
    ELSE (IF api_url = "u1" THEN CatalogSame ELSE CatalogEmpty)

Reply(sent, status, body) == [sent |-> sent, status |-> status, body |-> body]

\* What the models-listing endpoint of the backend at api_url may answer.
ModelsReplies(api_url) ==
    {Reply(FALSE, 0, None), Reply(TRUE, 500, None), Reply(TRUE, 200, None),
     Reply(TRUE, 200, Some(ModelsBody(upstream, api_url)))}

ProviderInfo(provider, available) == [provider |-> provider, available |-> available]

\* Body of the routing-options endpoint for one upstream model.
ProvidersBody(request_model) ==
    IF request_model = NANOGPT_DEFAULT_MODEL_ID
    THEN [supports_provider_selection |-> TRUE,
          providers |-> <<ProviderInfo("b", TRUE), ProviderInfo("a", TRUE),
                          ProviderInfo("c", FALSE)>>]
    ELSE IF request_model = "x"
    THEN [supports_provider_selection |-> TRUE,
          providers |-> <<ProviderInfo("q", TRUE), ProviderInfo("p", TRUE),
                          ProviderInfo("", TRUE), ProviderInfo("p", TRUE)>>]
    ELSE IF request_model = "a"
    THEN [supports_provider_selection |-> FALSE,
          providers |-> <<ProviderInfo("p", TRUE)>>]
    ELSE [supports_provider_selection |-> TRUE, providers |-> <<>>]

ProvidersReplies(request_model) ==
    {Reply(FALSE, 0, None), Reply(TRUE, 500, None), Reply(TRUE, 200, None),
     Reply(TRUE, 200, Some(ProvidersBody(request_model)))}

NoCapabilities ==
    [tools |-> FALSE, images |-> FALSE, parallel_tool_calls |-> FALSE,
     prompt_cache_key |-> FALSE, chat_completions |-> TRUE]

AvailableModel(name, chat_completions) ==
    [name |-> name, display_name |-> None, max_tokens |-> 1000,
     max_output_tokens |-> None, max_completion_tokens |-> None,
     capabilities |-> [NoCapabilities EXCEPT !.chat_completions = chat_completions]]

SettingsChoices ==
    { [api_url |-> "u1",
       available_models |-> <<AvailableModel("x", TRUE), AvailableModel("s", FALSE),
                              AvailableModel("s", TRUE), AvailableModel("hidden", TRUE)>>],
      [api_url |-> "u2",
       available_models |-> <<AvailableModel(NANOGPT_DEFAULT_MODEL_ID, TRUE)>>],
      [api_url |-> "u1", available_models |-> <<>>] }

----------------------------------------------------------------------------
\* Credential state (ApiKeyState): [url, key, from_env, env_var, loading]

ApiKeyState_new(url, env_var) ==
    [url |-> url, key |-> None, from_env |-> FALSE, env_var |-> env_var,
     loading |-> None]

has_key(aks) == IsSome(aks.key)

\* ApiKeyState::key: the key, if it is bound to this url.
key_for(aks, url) == IF IsSome(aks.key) /\ url = aks.url THEN aks.key ELSE None

is_from_env_var(aks) == IsSome(aks.key) /\ aks.from_env

is_authenticated == has_key(api_key_state)

\* A load_if_needed that would resolve the key again although one is loaded.
load_if_needed_again(aks, url) ==
    IF IsSome(aks.env_var)
    THEN [aks |-> [aks EXCEPT !.url = url, !.key = aks.env_var, !.from_env = TRUE,
                              !.loading = None],
          ready |-> TRUE, result |-> "ok"]
    ELSE [aks |-> [aks EXCEPT !.loading = IF IsSome(aks.loading) THEN aks.loading
                                          ELSE Some(url)],
          ready |-> FALSE, result |-> "none"]

\* ApiKeyState::load_if_needed: [aks, ready, result]; ready = FALSE when the
\* caller has to wait for the load task.
load_if_needed(aks, url) ==
    IF has_key(aks) /\ aks.url = url
    THEN [aks |-> aks, ready |-> TRUE, result |-> "ok"]
    ELSE IF IsSome(aks.env_var)
    THEN [aks |-> [aks EXCEPT !.url = url, !.key = aks.env_var, !.from_env = TRUE,
                              !.loading = None],
          ready |-> TRUE, result |-> "ok"]
    ELSE [aks |-> [aks EXCEPT !.loading = IF IsSome(aks.loading) THEN aks.loading
                                          ELSE Some(url)],
          ready |-> FALSE, result |-> "none"]

\* ApiKeyState::handle_url_change: the binding to the old url is invalidated
\* and the key for the new url is resolved again.
handle_url_change(aks, url) ==
    IF url = aks.url THEN aks
    ELSE IF IsSome(aks.env_var)
    THEN [aks EXCEPT !.url = url, !.key = aks.env_var, !.from_env = TRUE,
                     !.loading = None]
    ELSE [aks EXCEPT !.url = url, !.key = None, !.from_env = FALSE,
                     !.loading = Some(url)]

\* The store task's update of the credential state.
store_update(aks, url, key) ==
    [aks EXCEPT !.url = url, !.key = key, !.from_env = FALSE]

\* The load task's update of the credential state.
load_update(aks, url, stored) ==
    [aks EXCEPT !.url = url, !.key = stored, !.from_env = FALSE, !.loading = None]

----------------------------------------------------------------------------
\* State: the discovery pipeline

PROVIDER_FETCH_CONCURRENCY == 8

Min(a, b) == IF a < b THEN a ELSE b

\* set_nanogpt_api_key_env_var as called by set_api_key.
env_after_set_api_key(provider_id, env, api_key) ==
    IF is_nanogpt(provider_id)
    THEN (IF IsSome(api_key) /\ Unwrap(api_key) # "" THEN api_key ELSE None)
    ELSE env

sync_nanogpt_api_key_env(provider_id, env, aks, stg) ==
    IF ~is_nanogpt(provider_id) THEN env ELSE key_for(aks, stg.api_url)

\* The task fetch_dynamic_models spawns; the request is sent with the url and
\* key read at the spawn.  History: the models whose routing-options request
\* was started, in the order of the starts (sent), the call that started it (trigger),
\* whether every task spawned before it had ended then (alone), and whether
\* none of its routing-options fetches has failed (clean).
NewCycle(api_url, api_key, trigger) ==
    [st |-> "s1", api_url |-> api_url, api_key |-> api_key, trigger |-> trigger,
     models |-> <<>>, next |-> 1, inflight |-> {}, sent |-> <<>>, results |-> <<>>,
     failed |-> {},
     alone |-> \A k \in 1..Len(cycles) : cycles[k].st \in {"ok", "err"},
     clean |-> TRUE]

\* A task that has ended with st ("ok" or "err"): what it held is dropped; its
\* history is kept.
EndCycle(cy, st) ==
    [st |-> st, api_url |-> "", api_key |-> None, trigger |-> cy.trigger,
     models |-> <<>>, next |-> 1, inflight |-> {}, sent |-> <<>>, results |-> <<>>,
     failed |-> {},
     alone |-> cy.alone, clean |-> (st = "ok" /\ cy.failed = {})]

\* restart_dynamic_models_task, given the credential state and settings the
\* caller has just written.
restart_spawns(aks) == is_nanogpt(id) /\ has_key(aks)

\* A restart that would keep the discovered models of a provider without key.
restart_dynamic_models_task_keeping_models(aks, stg, trigger) ==
    IF ~is_nanogpt(id) \/ ~has_key(aks)
    THEN /\ fetch_dynamic_models_task' = None
         /\ fetch_provider_selection_task' = None
         /\ UNCHANGED <<dynamic_models, cycles>>
    ELSE /\ cycles' = Append(cycles, NewCycle(stg.api_url, key_for(aks, stg.api_url),
                                              trigger))
         /\ fetch_dynamic_models_task' = Some(Len(cycles) + 1)
         /\ UNCHANGED <<dynamic_models, fetch_provider_selection_task>>

\* A restart that would start the discovery for any provider with a key.
restart_dynamic_models_task_for_any_provider(aks, stg, trigger) ==
    IF ~has_key(aks)
    THEN /\ dynamic_models' = <<>>
         /\ fetch_dynamic_models_task' = None
         /\ fetch_provider_selection_task' = None
         /\ cycles' = cycles
    ELSE /\ cycles' = Append(cycles, NewCycle(stg.api_url, key_for(aks, stg.api_url),
                                              trigger))
         /\ fetch_dynamic_models_task' = Some(Len(cycles) + 1)
         /\ UNCHANGED <<dynamic_models, fetch_provider_selection_task>>

\* A restart that would clear the stored models when it starts a new fetch.
restart_dynamic_models_task_clearing_expanded(aks, stg, trigger) ==
    IF ~is_nanogpt(id) \/ ~has_key(aks)
    THEN /\ dynamic_models' = <<>>
         /\ fetch_dynamic_models_task' = None
         /\ fetch_provider_selection_task' = None
         /\ cycles' = cycles
    ELSE /\ cycles' = Append(cycles, NewCycle(stg.api_url, key_for(aks, stg.api_url),
                                              trigger))
         /\ fetch_dynamic_models_task' = Some(Len(cycles) + 1)
         /\ dynamic_models' = <<>>
         /\ UNCHANGED fetch_provider_selection_task

restart_dynamic_models_task(aks, stg, trigger) ==
    IF ~is_nanogpt(id) \/ ~has_key(aks)
    THEN /\ dynamic_models' = <<>>
         /\ fetch_dynamic_models_task' = None
         /\ fetch_provider_selection_task' = None
         /\ cycles' = cycles
    ELSE /\ cycles' = Append(cycles, NewCycle(stg.api_url, key_for(aks, stg.api_url),
                                              trigger))
         /\ fetch_dynamic_models_task' = Some(Len(cycles) + 1)
         /\ UNCHANGED <<dynamic_models, fetch_provider_selection_task>>

\* The discovery started by call i has ended, or the call started none.
Settled(all_ops, all_cycles, i) ==
    /\ all_ops[i].st = "returned"
    /\ all_ops[i].cycle # 0 => all_cycles[all_ops[i].cycle].st \in {"ok", "err"}

\* A call of set_api_key / authenticate and the task it returns.  after_settled
\* is history: the call before it had settled when this one was made.
NewOp(kind, url, key, st, result, after_settled) ==
    [kind |-> kind, url |-> url, key |-> key, st |-> st, result |-> result,
     returned |-> "none", cycle |-> 0, after_settled |-> after_settled]

PreviousSettled == ops = <<>> \/ Settled(ops, cycles, Len(ops))

\* State::set_api_key up to its spawn (also reset_credentials, with None).
SetApiKey(api_key) ==
    /\ nanogpt_api_key_env' = env_after_set_api_key(id, nanogpt_api_key_env, api_key)
    /\ ops' = Append(ops,
                     IF is_from_env_var(api_key_state)
                     THEN NewOp("set_key", settings.api_url, api_key, "ready", "err",
                                PreviousSettled)
                     ELSE NewOp("set_key", settings.api_url, api_key, "storing", "none",
                                PreviousSettled))
    /\ UNCHANGED <<stateVars, keychain, upstream, probe, settingsChanges, cycles, storesInOrder,
                   gatewayVars>>

\* The store task of ApiKeyState::store completes.
StoreComplete(i) ==
    /\ ops[i].st = "storing"
    /\ keychain' = [keychain EXCEPT ![ops[i].url] = ops[i].key]
    /\ api_key_state' = store_update(api_key_state, ops[i].url, ops[i].key)
    /\ ops' = [ops EXCEPT ![i].st = "ready", ![i].result = "ok"]
    /\ storesInOrder' = (storesInOrder /\ ~\E j \in 1..(i - 1) : ops[j].st = "storing")
    /\ UNCHANGED <<id, settings, dynamic_models, fetch_dynamic_models_task,
                   fetch_provider_selection_task, nanogpt_api_key_env, upstream, probe,
                   settingsChanges, cycles, gatewayVars>>

\* State::authenticate up to its spawn.
Authenticate ==
    /\ LET loaded == load_if_needed(api_key_state, settings.api_url)
       IN /\ api_key_state' = loaded.aks
          /\ ops' = Append(ops, NewOp("authenticate", settings.api_url, None,
                                      IF loaded.ready THEN "ready" ELSE "loading",
                                      loaded.result, PreviousSettled))
    /\ UNCHANGED <<id, settings, dynamic_models, fetch_dynamic_models_task,
                   fetch_provider_selection_task, keychain, upstream, probe, nanogpt_api_key_env,
                   settingsChanges, cycles, storesInOrder, gatewayVars>>

\* The load task of ApiKeyState completes.
LoadComplete ==
    /\ IsSome(api_key_state.loading)
    /\ LET url == Unwrap(api_key_state.loading)
       IN /\ api_key_state' = load_update(api_key_state, url, keychain[url])
          /\ ops' = [i \in 1..Len(ops) |->
                        IF ops[i].st = "loading"
                        THEN [ops[i] EXCEPT !.st = "ready",
                                            !.result = IF IsSome(keychain[url])
                                                       THEN "ok" ELSE "err"]
                        ELSE ops[i]]
    /\ UNCHANGED <<id, settings, dynamic_models, fetch_dynamic_models_task,
                   fetch_provider_selection_task, keychain, upstream, probe, nanogpt_api_key_env,
                   settingsChanges, cycles, storesInOrder, gatewayVars>>

\* A task that would restart the discovery only after a successful await.
Resume_only_on_success(i) ==
    /\ ops[i].st = "ready"
    /\ IF ops[i].result = "ok"
       THEN /\ nanogpt_api_key_env' =
                   sync_nanogpt_api_key_env(id, nanogpt_api_key_env, api_key_state,
                                            settings)
            /\ restart_dynamic_models_task(api_key_state, settings, i)
       ELSE UNCHANGED <<nanogpt_api_key_env, dynamic_models, fetch_dynamic_models_task,
                        fetch_provider_selection_task, cycles>>
    /\ ops' = [ops EXCEPT ![i].st = "returned",
                          ![i].returned = ops[i].result,
                          ![i].cycle = IF Len(cycles') > Len(cycles)
                                       THEN Len(cycles') ELSE 0]
    /\ UNCHANGED <<id, settings, api_key_state, keychain, upstream, probe, settingsChanges,
                   storesInOrder, gatewayVars>>

\* The task spawned by set_api_key / authenticate resumes after its await:
\* sync_nanogpt_api_key_env, then restart_dynamic_models_task, and the task
\* ends with the awaited result.
Resume(i) ==
    /\ ops[i].st = "ready"
    /\ nanogpt_api_key_env' =
           sync_nanogpt_api_key_env(id, nanogpt_api_key_env, api_key_state, settings)
    /\ restart_dynamic_models_task(api_key_state, settings, i)
    /\ ops' = [ops EXCEPT ![i].st = "returned",
                          ![i].returned = ops[i].result,
                          ![i].cycle = IF Len(cycles') > Len(cycles)
                                       THEN Len(cycles') ELSE 0]
    /\ UNCHANGED <<id, settings, api_key_state, keychain, upstream, probe, settingsChanges,
                   storesInOrder, gatewayVars>>

\* An observer that would restart only when the URL changes.
SettingsChanged_on_url_change_only(resolved) ==
    /\ settingsChanges' = settingsChanges + 1
    /\ IF IsSome(resolved) /\ settings.api_url # Unwrap(resolved).api_url
       THEN LET new == Unwrap(resolved)
                aks == handle_url_change(api_key_state, new.api_url)
            IN /\ api_key_state' = aks
               /\ settings' = new
               /\ nanogpt_api_key_env' =
                      sync_nanogpt_api_key_env(id, nanogpt_api_key_env, aks, new)
               /\ restart_dynamic_models_task(aks, new, 0)
       ELSE UNCHANGED <<settings, api_key_state, nanogpt_api_key_env, dynamic_models,
                        fetch_dynamic_models_task, fetch_provider_selection_task,
                        cycles>>
    /\ UNCHANGED <<id, keychain, upstream, probe, ops, storesInOrder, gatewayVars>>

\* The observer of the settings store runs; resolved is what resolve_settings
\* finds for this provider: None when the store has no entry for it.
SettingsChanged(resolved) ==
    /\ settingsChanges' = settingsChanges + 1
    /\ IF IsSome(resolved) /\ settings # Unwrap(resolved)
       THEN LET new == Unwrap(resolved)
                aks == handle_url_change(api_key_state, new.api_url)
            IN /\ api_key_state' = aks
               /\ settings' = new
               /\ nanogpt_api_key_env' =
                      sync_nanogpt_api_key_env(id, nanogpt_api_key_env, aks, new)
               /\ restart_dynamic_models_task(aks, new, 0)
       ELSE UNCHANGED <<settings, api_key_state, nanogpt_api_key_env, dynamic_models,
                        fetch_dynamic_models_task, fetch_provider_selection_task,
                        cycles>>
    /\ UNCHANGED <<id, keychain, upstream, probe, ops, storesInOrder, gatewayVars>>

\* A task that would be cancelled when the field holding its handle is
\* overwritten or cleared.
Runs_while_handle_is_stored(c) ==
    /\ cycles[c].st \notin {"ok", "err"}
    /\ cycles[c].st = "s1" => fetch_dynamic_models_task = Some(c)
    /\ cycles[c].st \in {"s2_spawned", "s2"} => fetch_provider_selection_task = Some(c)

\* Task: a spawned task runs until it ends.  Overwriting or clearing the field
\* that holds its handle (fetch_dynamic_models_task,
\* fetch_provider_selection_task) abandons the task and does not cancel it.
Runs(c) == cycles[c].st \notin {"ok", "err"}

\* A restart that would start no Stage-2 task.
restart_provider_selection_task_without_stage2(c, models) ==
    /\ fetch_provider_selection_task' = None
    /\ cycles' = [cycles EXCEPT ![c] = EndCycle(cycles[c], "ok")]

\* restart_provider_selection_task, called by cycle c with its Stage-1 models.
restart_provider_selection_task(c, models) ==
    IF models = <<>>
    THEN /\ fetch_provider_selection_task' = None
         /\ cycles' = [cycles EXCEPT ![c] = EndCycle(cycles[c], "ok")]
    ELSE /\ fetch_provider_selection_task' = Some(c)
         /\ cycles' = [cycles EXCEPT
                ![c].st = "s2_spawned",
                ![c].models = models,
                ![c].api_url = settings.api_url,
                ![c].api_key = key_for(api_key_state, settings.api_url)]

\* A Stage 1 that would start Stage 2 without writing its list.
stage1_models_not_written(fetched, current) == current

\* What the task of fetch_dynamic_models writes to dynamic_models.
stage1_models_clearing_on_error(fetched, current) ==
    IF fetched.ok THEN fetched.models ELSE <<>>

stage1_models(fetched, current) ==
    IF fetched.ok THEN fetched.models ELSE current

\* A credential task that would end with the error of the discovery it started.
task_results_with_discovery_error(c, fetched) ==
    IF ~fetched.ok /\ cycles[c].trigger # 0
    THEN [ops EXCEPT ![cycles[c].trigger].returned = "err"]
    ELSE ops

\* The results of the tasks of set_api_key / authenticate once the discovery
\* task c has its reply: each is the awaited store or load result; the
\* discovery task is stored in the State and not awaited.
task_results(c, fetched) == ops

\* The task spawned by fetch_dynamic_models gets the reply to its request.
Stage1Complete(c, reply) ==
    /\ Runs(c)
    /\ cycles[c].st = "s1"
    /\ LET fetched == fetch_nanogpt_models(reply)
       IN /\ dynamic_models' = stage1_models(fetched, dynamic_models)
          /\ IF fetched.ok
             THEN restart_provider_selection_task(c, fetched.models)
             ELSE /\ cycles' = [cycles EXCEPT ![c] = EndCycle(cycles[c], "err")]
                  /\ UNCHANGED fetch_provider_selection_task
          /\ ops' = task_results(c, fetched)
    /\ UNCHANGED <<id, settings, api_key_state, fetch_dynamic_models_task, keychain, upstream, probe,
                   nanogpt_api_key_env, settingsChanges, storesInOrder, gatewayVars>>

\* A fan-out that would start the request of every model at once.
Stage2Start_all_at_once(c) ==
    /\ Runs(c)
    /\ cycles[c].st = "s2_spawned"
    /\ LET n == Len(cycles[c].models)
       IN cycles' = [cycles EXCEPT ![c].st = "s2",
                                   ![c].inflight = 1..n,
                                   ![c].sent = [j \in 1..n |-> j],
                                   ![c].next = n + 1]
    /\ UNCHANGED <<stateVars, keychain, upstream, probe, nanogpt_api_key_env, ops, settingsChanges,
                   storesInOrder, gatewayVars>>

\* The task spawned by fetch_provider_selection_models is polled first:
\* buffer_unordered starts the first requests.
Stage2Start(c) ==
    /\ Runs(c)
    /\ cycles[c].st = "s2_spawned"
    /\ LET n == Min(PROVIDER_FETCH_CONCURRENCY, Len(cycles[c].models))
       IN cycles' = [cycles EXCEPT ![c].st = "s2",
                                   ![c].inflight = 1..n,
                                   ![c].sent = [j \in 1..n |-> j],
                                   ![c].next = n + 1]
    /\ UNCHANGED <<stateVars, keychain, upstream, probe, nanogpt_api_key_env, ops, settingsChanges,
                   storesInOrder, gatewayVars>>

\* buffer_unordered(8).collect(): each result is pushed when its request
\* completes.
collect_unordered(results, i, item) == Append(results, item)

\* A Stage 2 that would write what it has collected after every fetch.
stage2_models_as_collected(results, finished, current) ==
    models_with_provider_options(results)

\* What the task of fetch_provider_selection_models writes to dynamic_models:
\* nothing before collect() has every result.
stage2_models(results, finished, current) ==
    IF finished THEN models_with_provider_options(results) ELSE current

\* One routing-options request of cycle c completes; the next model's request
\* starts, and after the last one the expanded list is published.
FetchComplete(c, i, reply) ==
    /\ Runs(c)
    /\ cycles[c].st = "s2"
    /\ i \in cycles[c].inflight
    /\ LET cy == cycles[c]
           results == collect_unordered(cy.results, i,
                                        provider_options_for(cy.models[i], reply))
           failed == IF fetch_nanogpt_model_providers(reply).ok
                     THEN cy.failed ELSE cy.failed \cup {i}
           more == cy.next <= Len(cy.models)
           inflight == (cy.inflight \ {i}) \cup (IF more THEN {cy.next} ELSE {})
           next == IF more THEN cy.next + 1 ELSE cy.next
           sent == IF more THEN Append(cy.sent, cy.next) ELSE cy.sent
           finished == Len(results) = Len(cy.models)
       IN /\ cycles' = [cycles EXCEPT
                 ![c] = IF finished
                        THEN EndCycle([cy EXCEPT !.failed = failed], "ok")
                        ELSE [cy EXCEPT !.results = results, !.failed = failed,
                                        !.inflight = inflight, !.sent = sent,
                                        !.next = next]]
          /\ dynamic_models' = stage2_models(results, finished, dynamic_models)
    /\ UNCHANGED <<id, settings, api_key_state, fetch_dynamic_models_task,
                   fetch_provider_selection_task, keychain, upstream, probe, nanogpt_api_key_env, ops,
                   settingsChanges, storesInOrder, gatewayVars>>

----------------------------------------------------------------------------
\* The model handles and the streaming gateway

\* RateLimiter::new: a semaphore of `limit` permits.
RateLimiter_new(limit) == [limit |-> limit]

create_language_model_with_five_slots(model) ==
    [id |-> model.id, provider_id |-> id, provider_name |-> id, model |-> model,
     request_limiter |-> RateLimiter_new(5)]

\* create_language_model: the provider's name is its id (new()).
create_language_model(model) ==
    [id |-> model.id, provider_id |-> id, provider_name |-> id, model |-> model,
     request_limiter |-> RateLimiter_new(4)]

\* provided_models / default_model hand out a handle for a catalog entry.
CreateLanguageModel(model) ==
    /\ handles' = Append(handles, create_language_model(model))
    /\ UNCHANGED <<stateVars, discoveryVars, requests>>

\* Headers that would name the route only.
additional_headers_route_only(model) ==
    IF IsSome(model.provider_override)
    THEN <<<<"X-Provider", Unwrap(model.provider_override)>>>>
    ELSE <<>>

additional_headers(model) ==
    IF IsSome(model.provider_override)
    THEN <<<<"X-Provider", Unwrap(model.provider_override)>>,
           <<"X-Billing-Mode", "paygo">>>>
    ELSE <<>>

\* request.billing_mode after the mutation of the request handed in.
billing_mode(model, request) ==
    IF IsSome(model.provider_override) THEN Some("paygo") ELSE request.billing_mode

\* The request built by into_open_ai / into_open_ai_response: no billing mode.
into_open_ai == [billing_mode |-> None]

\* OpenAiCompatibleLanguageModel::stream_completion / stream_response up to the
\* future they return: the key and the url are read from the State, the request
\* is mutated, and the async block is handed to request_limiter.stream.
\* built is history: the billing mode of the request handed in.
NewRequest(h, shape, request) ==
    [handle |-> h,
     shape |-> shape,
     built |-> request.billing_mode,
     api_key |-> key_for(api_key_state, settings.api_url),
     api_url |-> settings.api_url,
     billing_mode |-> billing_mode(handles[h].model, request),
     additional_headers |-> additional_headers(handles[h].model),
     provider |-> handles[h].provider_name,
     st |-> "queued",
     wire |-> None,
     outcome |-> None]

stream_completion(h, request) == NewRequest(h, "chat_completions", request)
stream_response(h, request) == NewRequest(h, "responses", request)

\* LanguageModel::stream_completion on handle h.
StreamCompletion(h) ==
    /\ requests' = requests (+) SetToBag({IF handles[h].model.capabilities.chat_completions
                                           THEN stream_completion(h, into_open_ai)
                                           ELSE stream_response(h, into_open_ai)})
    /\ UNCHANGED <<stateVars, discoveryVars, handles>>

\* What goes to the upstream endpoint for request r.
Wire(r) ==
    [endpoint |-> r.shape, api_url |-> r.api_url, api_key |-> Unwrap(r.api_key),
     headers |-> r.additional_headers, billing_mode |-> r.billing_mode]

NoApiKey(provider) == [error |-> "NoApiKey", provider |-> provider]

run_request_without_key_check(r) ==
    [r EXCEPT !.st = "sent",
              !.wire = Some([endpoint |-> r.shape, api_url |-> r.api_url,
                             api_key |-> UnwrapOr(r.api_key, ""),
                             headers |-> r.additional_headers,
                             billing_mode |-> r.billing_mode])]

\* The async block given to request_limiter.stream, run to its first await.
run_request(r) ==
    IF r.api_key = None
    THEN [r EXCEPT !.st = "done", !.outcome = Some(NoApiKey(r.provider))]
    ELSE [r EXCEPT !.st = "sent", !.wire = Some(Wire(r))]

\* Request r moves on to become request `next`.
Becomes(r, next) == (requests (-) SetToBag({r})) (+) SetToBag({next})

\* Permits counted as if the handles of one model id shared one limiter.
Holding_shared_by_model_id(h) ==
    LET held == {r \in BagToSet(requests) :
                    /\ handles[r.handle].id = handles[h].id
                    /\ r.st \in {"sent", "streaming"}}
    IN BagCardinality([r \in held |-> requests[r]])

\* The number of requests of handle h that hold a permit of its limiter.
Holding(h) ==
    LET held == {r \in BagToSet(requests) :
                    r.handle = h /\ r.st \in {"sent", "streaming"}}
    IN BagCardinality([r \in held |-> requests[r]])

\* A gateway that would check the key before it asks the limiter for a permit.
Dispatch_checking_key_first(r) ==
    /\ r.st = "queued"
    /\ r.api_key = None \/ Holding(r.handle) < handles[r.handle].request_limiter.limit
    /\ requests' = Becomes(r, run_request(r))
    /\ UNCHANGED <<stateVars, discoveryVars, handles>>

\* RateLimiter::stream: request r gets a permit of its handle's semaphore and
\* its async block starts; a block that ends in an error drops the permit.
Dispatch(r) ==
    /\ r.st = "queued"
    /\ Holding(r.handle) < handles[r.handle].request_limiter.limit
    /\ requests' = Becomes(r, run_request(r))
    /\ UNCHANGED <<stateVars, discoveryVars, handles>>

\* A failed request that would take the key for rejected and drop it.
Respond_dropping_key_on_error(r, ok) ==
    /\ r.st = "sent"
    /\ requests' = Becomes(r, [r EXCEPT
           !.st = IF ok THEN "streaming" ELSE "done",
           !.outcome = IF ok THEN None ELSE Some([error |-> "HttpError"])])
    /\ api_key_state' = IF ok THEN api_key_state ELSE [api_key_state EXCEPT !.key = None]
    /\ UNCHANGED <<id, settings, dynamic_models, fetch_dynamic_models_task,
                   fetch_provider_selection_task, discoveryVars, handles>>

\* A failed request that would keep its permit.
Respond_keeping_permit(r, ok) ==
    /\ r.st = "sent"
    /\ requests' = Becomes(r, [r EXCEPT
           !.st = "streaming",
           !.outcome = IF ok THEN None ELSE Some([error |-> "HttpError"])])
    /\ UNCHANGED <<stateVars, discoveryVars, handles>>

\* The upstream answers request r: the stream is returned with the permit, or
\* the request's error is returned and the permit dropped.
Respond(r, ok) ==
    /\ r.st = "sent"
    /\ requests' = Becomes(r, [r EXCEPT
           !.st = IF ok THEN "streaming" ELSE "done",
           !.outcome = IF ok THEN None ELSE Some([error |-> "HttpError"])])
    /\ UNCHANGED <<stateVars, discoveryVars, handles>>

\* The caller drops the stream of request r (exhausted or abandoned): the
\* permit is released.
DropStream(r) ==
    /\ r.st = "streaming"
    /\ requests' = Becomes(r, [r EXCEPT !.st = "done",
                                        !.outcome = Some([stream |-> "dropped"])])
    /\ UNCHANGED <<stateVars, discoveryVars, handles>>

----------------------------------------------------------------------------
\* The provider after OpenAiCompatibleLanguageModelProvider::new

\* The credential store holds a key for u1 from an earlier run.
InitKeychain == [u \in Urls |-> IF u = "u1" THEN Some("k0") ELSE None]

\* new(): the State is built with the provider's settings, and the nanogpt
\* provider calls authenticate once.
InitState(provider_id, stg, env_var) ==
    /\ id = provider_id
    /\ settings = stg
    /\ dynamic_models = <<>>
    /\ fetch_dynamic_models_task = None
    /\ fetch_provider_selection_task = None
    /\ nanogpt_api_key_env = None
    /\ settingsChanges = 0
    /\ cycles = <<>>
    /\ storesInOrder = TRUE
    /\ LET aks == ApiKeyState_new(stg.api_url, env_var)
           loaded == load_if_needed(aks, stg.api_url)
       IN IF is_nanogpt(provider_id)
          THEN /\ api_key_state = loaded.aks
               /\ ops = <<NewOp("authenticate", stg.api_url, None,
                                IF loaded.ready THEN "ready" ELSE "loading",
                                loaded.result, TRUE)>>
          ELSE /\ api_key_state = aks
               /\ ops = <<>>

InitProvider(provider_ids, settings_choices, env_keys, upstreams) ==
    /\ \E provider_id \in provider_ids, stg \in settings_choices, env_var \in env_keys :
           InitState(provider_id, stg, env_var)
    /\ keychain = InitKeychain
    /\ upstream \in upstreams
    /\ handles = <<>>
    /\ requests = EmptyBag

\* No fetch function is called outside the discovery tasks.
NoCall == [fn |-> "none"]

InitWith(provider_ids, settings_choices, env_keys, upstreams) ==
    /\ InitProvider(provider_ids, settings_choices, env_keys, upstreams)
    /\ probe = NoCall

Init == InitWith(ProviderIds, SettingsChoices, EnvKeys, Upstreams)

\* Discovery tasks that have not ended.
InFlight == {c \in 1..Len(cycles) : Runs(c)}

\* The bounds of the exploration: the number of credential calls, of settings
\* notifications, and of discovery tasks running at once.
MaySpawn(aks, max_in_flight) ==
    restart_spawns(aks) => Cardinality(InFlight) < max_in_flight

\* The calls of the provider's users, at most max_ops of them.
Calls(max_ops) ==
    \/ \E api_key \in {None} \cup {Some(k) : k \in Keys} :
           Len(ops) < max_ops /\ SetApiKey(api_key)
    \/ Len(ops) < max_ops /\ Authenticate

\* The tasks spawned by those calls resume.
Resumes(max_in_flight) ==
    \E i \in 1..Len(ops) : MaySpawn(api_key_state, max_in_flight) /\ Resume(i)

\* What resolve_settings can find: one of the choices, or no entry.
Resolved(choices) == {None} \cup {Some(c) : c \in choices}

\* Notifications of the settings store, at most max_changes of them.
Notifies(max_changes, max_in_flight) ==
    \E resolved \in Resolved(SettingsChoices) :
        /\ settingsChanges < max_changes
        /\ (IsSome(resolved) /\ settings # Unwrap(resolved)) =>
               MaySpawn(handle_url_change(api_key_state, Unwrap(resolved).api_url),
                        max_in_flight)
        /\ SettingsChanged(resolved)

\* The credential store answers.
Credentials ==
    \/ \E i \in 1..Len(ops) : StoreComplete(i)
    \/ LoadComplete

\* The remote backend answers the discovery tasks.
Discovery ==
    \/ \E c \in {k \in 1..Len(cycles) : cycles[k].st = "s1"} :
           \E reply \in ModelsReplies(cycles[c].api_url) : Stage1Complete(c, reply)
    \/ \E c \in 1..Len(cycles) : Stage2Start(c)
    \/ \E c \in 1..Len(cycles) :
           \E i \in cycles[c].inflight :
               \E reply \in ProvidersReplies(cycles[c].models[i].request_model) :
                   FetchComplete(c, i, reply)

Completions ==
    \/ Credentials
    \/ Discovery

Next ==
    \/ Calls(MaxOps)
    \/ Resumes(MaxInFlight)
    \/ Notifies(MaxSettingsChanges, MaxInFlight)
    \/ Completions

Spec == Init /\ [][Next]_vars

\* The provider under the scheduling of the executor: a store or load that
\* was started completes, a task whose await is over resumes, and the remote
\* backend answers.
Fairness ==
    /\ WF_vars(Credentials)
    /\ WF_vars(Resumes(MaxInFlight))
    /\ WF_vars(Discovery)

SpecFair == Init /\ [][Next]_vars /\ Fairness

----------------------------------------------------------------------------
\* The gateway of a provider other than nanogpt: handles, requests, and the
\* credential calls that change the key the requests read.

MaxGatewayOps == 1
MaxHandles == 2
MaxRequests == 5

GatewaySettings ==
    [api_url |-> "u1",
     available_models |-> <<AvailableModel("x", TRUE), AvailableModel("s", FALSE)>>]

GatewayInit == InitWith({"other"}, {GatewaySettings}, {None}, {"main"})

Facade(max_handles) ==
    \E i \in 1..Len(resolved_models) :
        Len(handles) < max_handles /\ CreateLanguageModel(resolved_models[i])

Streams(max_requests) ==
    \/ \E h \in 1..Len(handles) :
           BagCardinality(requests) < max_requests /\ StreamCompletion(h)
    \/ \E r \in BagToSet(requests) : Dispatch(r)
    \/ \E r \in BagToSet(requests) : \E ok \in BOOLEAN : Respond(r, ok)
    \/ \E r \in BagToSet(requests) : DropStream(r)

GatewayNext ==
    \/ Calls(MaxGatewayOps)
    \/ Resumes(MaxInFlight)
    \/ Credentials
    \/ Facade(MaxHandles)
    \/ Streams(MaxRequests)

SpecGateway == GatewayInit /\ [][GatewayNext]_vars

\* The gateway under the scheduling of the executor and of the limiter: a waiter
\* of a semaphore with a free permit runs, the upstream answers a request that
\* was sent, and a stream that was returned is dropped by its consumer.
GatewayFairness ==
    /\ WF_vars(\E r \in BagToSet(requests) : Dispatch(r))
    /\ WF_vars(\E r \in BagToSet(requests) : \E ok \in BOOLEAN : Respond(r, ok))
    /\ WF_vars(\E r \in BagToSet(requests) : DropStream(r))

SpecGatewayFair == GatewayInit /\ [][GatewayNext]_vars /\ GatewayFairness

----------------------------------------------------------------------------
\* The nanogpt provider with no key at its url: credential calls racing with
\* the discovery they start.

MaxRaceOps == 3

RaceSettings ==
    [api_url |-> "u2",
     available_models |-> <<AvailableModel(NANOGPT_DEFAULT_MODEL_ID, TRUE)>>]

RaceInit == InitWith({NANOGPT_PROVIDER_ID}, {RaceSettings}, {None}, {"main"})

RaceNext ==
    \/ Calls(MaxRaceOps)
    \/ Resumes(MaxInFlight)
    \/ Completions

SpecRace == RaceInit /\ [][RaceNext]_vars

----------------------------------------------------------------------------
\* The nanogpt provider with its key in the environment: every trigger starts
\* a discovery task at once, and a task started while another runs supersedes
\* it.

MaxSupersedeOps == 2
MaxSupersedeChanges == 1
MaxSuperseded == 2

SupersedeSettings == [api_url |-> "u1", available_models |-> <<>>]

SupersedeInit ==
    InitWith({NANOGPT_PROVIDER_ID}, {SupersedeSettings}, {Some("kenv")}, {"main"})

SupersedeNext ==
    \/ Calls(MaxSupersedeOps)
    \/ Resumes(MaxSuperseded)
    \/ Notifies(MaxSupersedeChanges, MaxSuperseded)
    \/ Discovery

SpecSupersede == SupersedeInit /\ [][SupersedeNext]_vars

----------------------------------------------------------------------------
\* The gateway of the nanogpt provider: handles for the entries of the
\* discovered catalog, with and without a routing override, and the two
\* request functions of a handle called on requests built with and without a
\* billing mode.

MaxRoutedHandles == 2
MaxRoutedRequests == 2

RoutedSettings ==
    [api_url |-> "u2", available_models |-> <<AvailableModel("s", FALSE)>>]

BuiltRequests == {[billing_mode |-> None], [billing_mode |-> Some("subscription")]}

\* With its key in the environment, or with no key at all.
RoutedInit ==
    InitWith({NANOGPT_PROVIDER_ID}, {RoutedSettings}, {None, Some("kenv")}, {"main"})

\* OpenAiCompatibleLanguageModel::stream_completion on handle h.
CallStreamCompletion(h, request) ==
    /\ requests' = requests (+) SetToBag({stream_completion(h, request)})
    /\ UNCHANGED <<stateVars, discoveryVars, handles>>

\* OpenAiCompatibleLanguageModel::stream_response on handle h.
CallStreamResponse(h, request) ==
    /\ requests' = requests (+) SetToBag({stream_response(h, request)})
    /\ UNCHANGED <<stateVars, discoveryVars, handles>>

RoutedStreams(max_requests) ==
    \/ \E h \in 1..Len(handles), request \in BuiltRequests :
           BagCardinality(requests) < max_requests /\ CallStreamCompletion(h, request)
    \/ \E h \in 1..Len(handles), request \in BuiltRequests :
           BagCardinality(requests) < max_requests /\ CallStreamResponse(h, request)
    \/ \E h \in 1..Len(handles) :
           BagCardinality(requests) < max_requests /\ StreamCompletion(h)
    \/ \E r \in BagToSet(requests) : Dispatch(r)
    \/ \E r \in BagToSet(requests) : \E ok \in BOOLEAN : Respond(r, ok)
    \/ \E r \in BagToSet(requests) : DropStream(r)

RoutedNext ==
    \/ Resumes(MaxInFlight)
    \/ Discovery
    \/ Facade(MaxRoutedHandles)
    \/ RoutedStreams(MaxRoutedRequests)

SpecRouted == RoutedInit /\ [][RoutedNext]_vars

----------------------------------------------------------------------------
\* The nanogpt provider at a backend that lists more models than
\* buffer_unordered keeps in flight: the fan-out of the routing-options
\* requests.

\* A reply arrives before at most MaxOvertaken older requests still in flight.
MaxOvertaken == 1

FanOutSettings == [api_url |-> "u1", available_models |-> <<>>]

FanOutInit ==
    InitWith({NANOGPT_PROVIDER_ID}, {FanOutSettings}, {Some("kenv")}, {"wide"})

\* The routing-options endpoint answers; for two of the models it may fail.
FanOutReplies(request_model) ==
    {Reply(TRUE, 200, Some(ProvidersBody(request_model)))}
        \cup (IF request_model \in {WideKeys[1], WideKeys[MaxWide]}
              THEN {Reply(TRUE, 500, None)} ELSE {})

FanOutDiscovery ==
    \/ \E c \in {k \in 1..Len(cycles) : cycles[k].st = "s1"} :
           \E reply \in ModelsReplies(cycles[c].api_url) : Stage1Complete(c, reply)
    \/ \E c \in 1..Len(cycles) : Stage2Start(c)
    \/ \E c \in 1..Len(cycles) :
           \E i \in cycles[c].inflight :
               /\ Cardinality({j \in cycles[c].inflight : j < i}) <= MaxOvertaken
               /\ \E reply \in FanOutReplies(cycles[c].models[i].request_model) :
                      FetchComplete(c, i, reply)

FanOutNext ==
    \/ Resumes(MaxInFlight)
    \/ FanOutDiscovery

\* Each request returns: the backend answers, and the tasks run.
FanOutFairness ==
    /\ WF_vars(Resumes(MaxInFlight))
    /\ WF_vars(FanOutDiscovery)

SpecFanOut == FanOutInit /\ [][FanOutNext]_vars /\ FanOutFairness

----------------------------------------------------------------------------
\* The fetch functions on their own: fetch_nanogpt_models and the expansion of
\* one base model by fetch_nanogpt_model_providers, called on replies drawn
\* from bounded sets.

MaxCatalog == 3
MaxCapabilities == 2
MaxProviders == 3

KeyNames == <<"a", "b", "c", "e", "f">>
CatalogKeys == {KeyNames[i] : i \in 1..MaxCatalog}

\* Records that differ in what the order and the visibility depend on.
OrderRecords ==
    {CatalogRecord(model, name, visible, None, None, <<>>) :
        model \in {None, Some(NANOGPT_DEFAULT_MODEL_ID), Some("m")},
        name \in {None, Some("Zed"), Some("b")},
        visible \in {None, Some(FALSE)}}

TokenNumbers == {None, Some(-1), Some(0), Some(1000)}

CapabilityTokens ==
    {"tool-calling", "TOOL-CALLING", "Tool-Calling", "tools", "vision", "Vision", "visio"}

CapabilityLists == UNION {[1..n -> CapabilityTokens] : n \in 0..MaxCapabilities}

\* Records that differ in their token limits and capability tokens.
LimitRecords ==
    {CatalogRecord(None, None, Some(TRUE), max_in, max_out, capabilities) :
        max_in \in TokenNumbers, max_out \in TokenNumbers,
        capabilities \in CapabilityLists}

ModelsCall(sent, status, json) ==
    [fn |-> "fetch_nanogpt_models", sent |-> sent, status |-> status, body |-> json,
     result |-> None]

ModelsCalls ==
    {ModelsCall(TRUE, 200, json) :
        json \in UNION {[K -> OrderRecords] : K \in SUBSET CatalogKeys}
                     \cup [{KeyNames[1]} -> LimitRecords]}
    \cup {ModelsCall(FALSE, 0, <<>>), ModelsCall(TRUE, 404, <<>>)}

ProviderNames == {"a", "b", "c", ""}

ProviderLists ==
    UNION {[1..n -> {ProviderInfo(provider, available) :
                        provider \in ProviderNames, available \in BOOLEAN}] :
              n \in 0..MaxProviders}

\* The base models whose routing options are fetched.
BaseModels ==
    {catalog_entry("k", CatalogRecord(Some(NANOGPT_DEFAULT_MODEL_ID), Some("Default Model"),
                                      None, None, None, <<>>)),
     catalog_entry("m", CatalogRecord(None, None, None, None, None, <<>>))}

ProvidersCall(model, sent, status, body) ==
    [fn |-> "fetch_nanogpt_model_providers", model |-> model, sent |-> sent,
     status |-> status, body |-> body, result |-> None]

ProvidersCalls ==
    {ProvidersCall(model, TRUE, 200,
                   Some([supports_provider_selection |-> supports, providers |-> providers])) :
        model \in BaseModels, supports \in BOOLEAN, providers \in ProviderLists}
    \cup {ProvidersCall(model, TRUE, 200, None) : model \in BaseModels}
    \cup {ProvidersCall(model, TRUE, 503, None) : model \in BaseModels}
    \cup {ProvidersCall(model, FALSE, 0, None) : model \in BaseModels}

CatalogInit ==
    /\ InitProvider({NANOGPT_PROVIDER_ID}, {[api_url |-> "u1", available_models |-> <<>>]},
                    {None}, {"main"})
    /\ probe \in ModelsCalls \cup ProvidersCalls

\* fetch_nanogpt_models on the reply of the call.
FetchNanogptModels ==
    /\ probe.fn = "fetch_nanogpt_models"
    /\ probe.result = None
    /\ probe' = [probe EXCEPT !.result =
           Some(fetch_nanogpt_models(
                    Reply(probe.sent, probe.status,
                          NanogptModelsResponse_from_str(probe.body))))]
    /\ UNCHANGED <<stateVars, keychain, upstream, nanogpt_api_key_env, ops, settingsChanges,
                   cycles, storesInOrder, gatewayVars>>

\* The future of one base model in fetch_provider_selection_models and the
\* entries its (model, providers) pair gives.
FetchModelProviders ==
    /\ probe.fn = "fetch_nanogpt_model_providers"
    /\ probe.result = None
    /\ probe' = [probe EXCEPT !.result =
           Some(models_with_provider_options(
                    <<provider_options_for(probe.model,
                                           Reply(probe.sent, probe.status, probe.body))>>))]
    /\ UNCHANGED <<stateVars, keychain, upstream, nanogpt_api_key_env, ops, settingsChanges,
                   cycles, storesInOrder, gatewayVars>>

CatalogNext ==
    \/ FetchNanogptModels
    \/ FetchModelProviders

SpecCatalog == CatalogInit /\ [][CatalogNext]_vars

----------------------------------------------------------------------------
\* Properties

IsDefaultEntry(model) ==
    model.request_model = NANOGPT_DEFAULT_MODEL_ID /\ model.provider_override = None

\* C1: in every reachable state no two entries of resolved_models() have the
\* same id.
C1_IdsUnique ==
    \A i, j \in 1..Len(resolved_models) :
        i # j => resolved_models[i].id # resolved_models[j].id

\* C2: when dynamic_models is not empty, resolved_models() starts with
\* dynamic_models unchanged; every entry after it is the static model of its
\* name, has an id no earlier entry has, and the appended entries are in the
\* order of settings.available_models, none with a new id left out.
C2_StaticFillsGapsOnly ==
    LET models == resolved_models
        available == settings.available_models
        n == Len(dynamic_models)
        FirstNamed(name) ==
            CHOOSE j \in 1..Len(available) :
                /\ available[j].name = name
                /\ \A k \in 1..(j - 1) : available[k].name # name
    IN (is_nanogpt(id) /\ dynamic_models # <<>>) =>
           /\ Len(models) >= n
           /\ SubSeq(models, 1, n) = dynamic_models
           /\ \A k \in (n + 1)..Len(models) :
                  /\ \E j \in 1..Len(available) : available[j].name = models[k].id
                  /\ models[k] = from_available_model(available[FirstNamed(models[k].id)])
                  /\ \A i \in 1..(k - 1) : models[i].id # models[k].id
                  /\ \A i \in (n + 1)..(k - 1) :
                         FirstNamed(models[i].id) < FirstNamed(models[k].id)
           /\ \A j \in 1..Len(available) :
                  \E k \in 1..Len(models) : models[k].id = available[j].name

\* A discovered entry and a static model share an id, and another static model
\* has been appended.
C2_Witness ==
    /\ is_nanogpt(id)
    /\ dynamic_models # <<>>
    /\ \E i \in 1..Len(dynamic_models), j \in 1..Len(settings.available_models) :
           dynamic_models[i].id = settings.available_models[j].name
    /\ Len(resolved_models) > Len(dynamic_models)

\* Every call has returned, and no load or discovery task is running.
AllSettled ==
    /\ \A i \in 1..Len(ops) : ops[i].st = "returned"
    /\ api_key_state.loading = None
    /\ InFlight = {}

\* C3: after set_api_key(Some(k)) and then set_api_key(None), called before
\* the discovery of the first has ended, with the stores completing in call
\* order, the provider is unauthenticated and dynamic_models is empty once
\* every store and discovery task has ended.
C3_SetThenResetLeavesEmpty ==
    (/\ Len(ops) = 3
     /\ ops[2].kind = "set_key" /\ IsSome(ops[2].key)
     /\ ops[3].kind = "set_key" /\ ops[3].key = None
     /\ ~ops[3].after_settled
     /\ storesInOrder
     /\ AllSettled)
        => (~is_authenticated /\ dynamic_models = <<>>)

\* C4: the requests of one handle holding a permit are never more than 4, and
\* a request queued on a handle with 4 permits held stays queued: it is
\* neither failed nor sent in that step.
C4_AtMostFourInFlight ==
    /\ [](\A h \in 1..Len(handles) : Holding(h) <= 4)
    /\ [][\A r \in BagToSet(requests) :
              (r.st = "queued" /\ Holding(r.handle) >= 4)
                  => CopiesIn(r, requests') >= CopiesIn(r, requests)]_vars

\* Four requests of a handle hold its permits and a fifth is queued.
C4_Witness ==
    \E r \in BagToSet(requests) :
        /\ r.st = "queued"
        /\ IsSome(r.api_key)
        /\ Holding(r.handle) = 4

\* C5: a request that read no key is never sent upstream, and it ends with
\* NoApiKey naming the provider, whichever its request shape.
C5_NoApiKey ==
    \A r \in BagToSet(requests) :
        r.api_key = None =>
            /\ r.wire = None
            /\ r.st \in {"queued", "done"}
            /\ r.st = "done" => r.outcome = Some(NoApiKey(id))

\* A request of each shape has ended with NoApiKey.
C5_Witness ==
    \A shape \in {"chat_completions", "responses"} :
        \E r \in BagToSet(requests) :
            /\ r.shape = shape
            /\ r.st = "done"
            /\ r.outcome = Some(NoApiKey(id))
            /\ r.wire = None

\* Request r is dispatched in this step: the limiter starts its async block.
Dispatched(r) ==
    /\ r.st = "queued"
    /\ CopiesIn(r, requests') < CopiesIn(r, requests)

\* C11: a request is dispatched with the key and the url the State holds at
\* the dispatch: it is sent with them, or ends with NoApiKey when there is no
\* key then; and what a dispatched request was sent with never changes.
C11_KeyReadAtDispatch ==
    [][/\ \A r \in BagToSet(requests) :
              Dispatched(r) =>
                  LET api_key == key_for(api_key_state, settings.api_url)
                      now == [r EXCEPT !.api_key = api_key,
                                       !.api_url = settings.api_url]
                      then == IF api_key = None
                              THEN [now EXCEPT !.st = "done",
                                               !.outcome = Some(NoApiKey(r.provider))]
                              ELSE [now EXCEPT !.st = "sent", !.wire = Some(Wire(now))]
                  IN \E q \in BagToSet(requests') :
                         /\ CopiesIn(q, requests') > CopiesIn(q, requests)
                         /\ q.st = then.st
                         /\ q.wire = then.wire
                         /\ q.outcome = then.outcome
       /\ \A r \in BagToSet(requests) :
              r.st \in {"sent", "streaming"} =>
                  \/ CopiesIn(r, requests') >= CopiesIn(r, requests)
                  \/ \E q \in BagToSet(requests') :
                         /\ CopiesIn(q, requests') > CopiesIn(q, requests)
                         /\ q.wire = r.wire
      ]_vars

\* The requests of handle h that have been sent and have not ended.
Active(h) ==
    LET active == {r \in BagToSet(requests) :
                      r.handle = h /\ IsSome(r.wire) /\ r.outcome = None}
    IN BagCardinality([r \in active |-> requests[r]])

\* The permits of a handle are held by its requests that were sent and have
\* not ended, and a queued request of a handle with fewer than 4 of them can
\* be dispatched.
C12_PermitHeldWhileActive ==
    /\ \A h \in 1..Len(handles) : Holding(h) = Active(h)
    /\ \A r \in BagToSet(requests) :
           (r.st = "queued" /\ Active(r.handle) < 4) => ENABLED Dispatch(r)

\* C12: a request whose stream was dropped (exhausted or abandoned) or whose
\* call failed holds no permit, so that, the streams being consumed, again
\* and again no request is left waiting for a permit: every queued request is
\* eventually dispatched.
C12_PermitReleased ==
    /\ []C12_PermitHeldWhileActive
    /\ []<>(\A r \in BagToSet(requests) : r.st # "queued")

\* A request waits behind a handle that has had 4 permits held, after a
\* stream of that handle was dropped and a request of it failed.
C12_Witness ==
    \E r \in BagToSet(requests) :
        /\ r.st = "queued"
        /\ IsSome(r.api_key)
        /\ Active(r.handle) = 2
        /\ \E d \in BagToSet(requests) :
               d.handle = r.handle /\ d.outcome = Some([stream |-> "dropped"])
        /\ \E f \in BagToSet(requests) :
               f.handle = r.handle /\ f.outcome = Some([error |-> "HttpError"])

\* The catalog records the backends hold, at any url.
CatalogRecords ==
    UNION {Range(ModelsBody(upstream, api_url)) : api_url \in Urls}

RecordId(record) == UnwrapOr(record.model.model, record.key)

IsHidden(record) == record.model.visible = Some(FALSE)

StaticIds == {settings.available_models[i].name : i \in 1..Len(settings.available_models)}

\* The claim as stated: once the nanogpt catalog is discovered, no entry of
\* resolved_models() has the upstream identifier of a record marked
\* visible: false.
C13_HiddenNeverResolved ==
    (is_nanogpt(id) /\ dynamic_models # <<>>) =>
        \A i \in 1..Len(resolved_models) :
            \A record \in CatalogRecords :
                IsHidden(record) => resolved_models[i].request_model # RecordId(record)

\* C13: every discovered entry, base or routing variant, comes from a record
\* that is not marked visible: false, and an entry of resolved_models() with
\* the upstream identifier of a record marked visible: false is a static
\* model of the settings.
C13_HiddenNeverDiscovered ==
    /\ \A i \in 1..Len(dynamic_models) :
           \E record \in CatalogRecords :
               ~IsHidden(record) /\ RecordId(record) = dynamic_models[i].request_model
    /\ \A i \in 1..Len(resolved_models) :
           \A record \in CatalogRecords :
               (IsHidden(record) /\ resolved_models[i].request_model = RecordId(record))
                   => /\ resolved_models[i].id \in StaticIds
                      /\ resolved_models[i].provider_override = None

\* The catalog with a hidden record was discovered and expanded; the hidden
\* identifier is in resolved_models() as the static model of the settings.
C13_Witness ==
    /\ is_nanogpt(id)
    /\ upstream = "main"
    /\ \E i \in 1..Len(dynamic_models) :
           dynamic_models[i].id = NANOGPT_DEFAULT_MODEL_ID \o "@a"
    /\ \E i \in 1..Len(resolved_models) : resolved_models[i].id = "hidden"
    /\ \A i \in 1..Len(dynamic_models) : dynamic_models[i].request_model # "hidden"

\* The provider names in use, in ascending byte order.
ProviderOrder == <<"a", "b", "c">>
ProviderRank(name) == CHOOSE i \in 1..Len(ProviderOrder) : ProviderOrder[i] = name

\* The base model's fetch ended with a response that declares provider
\* selection supported.
DeclaresSupport(call) ==
    /\ call.sent
    /\ call.status \in 200..299
    /\ IsSome(call.body)
    /\ Unwrap(call.body).supports_provider_selection

\* C14: the entries of one base model are the base entry followed directly by
\* one routing variant id@provider for each distinct non-empty provider name
\* marked available in a response that declares support, in ascending order
\* of the names; a response that does not declare support gives the base
\* entry alone.
C14_RoutingVariants ==
    (probe.fn = "fetch_nanogpt_model_providers" /\ IsSome(probe.result)) =>
        LET entries == Unwrap(probe.result)
            base == probe.model
            names ==
                IF DeclaresSupport(probe)
                THEN {info.provider : info \in
                         {i \in Range(Unwrap(probe.body).providers) :
                             i.available /\ i.provider # ""}}
                ELSE {}
        IN /\ Len(entries) = 1 + Cardinality(names)
           /\ entries[1] = base
           /\ \A i \in 2..Len(entries) :
                  /\ IsSome(entries[i].provider_override)
                  /\ Unwrap(entries[i].provider_override) \in names
                  /\ entries[i].request_model = base.request_model
                  /\ entries[i].id =
                         base.request_model \o "@" \o Unwrap(entries[i].provider_override)
           /\ \A i, j \in 2..Len(entries) :
                  i < j => ProviderRank(Unwrap(entries[i].provider_override))
                               < ProviderRank(Unwrap(entries[j].provider_override))

\* Options b and a available, c unavailable: base, id@a, id@b.
C14_Witness ==
    /\ probe.fn = "fetch_nanogpt_model_providers"
    /\ DeclaresSupport(probe)
    /\ Unwrap(probe.body).providers =
           <<ProviderInfo("b", TRUE), ProviderInfo("a", TRUE), ProviderInfo("c", FALSE)>>
    /\ IsSome(probe.result)
    /\ [i \in 1..Len(Unwrap(probe.result)) |-> Unwrap(probe.result)[i].id] =
           <<probe.model.id, probe.model.id \o "@a", probe.model.id \o "@b">>

\* The call of fetch_nanogpt_models returned the models of its body.
Listed ==
    /\ probe.fn = "fetch_nanogpt_models"
    /\ IsSome(probe.result)
    /\ Unwrap(probe.result).ok

ListedModels == Unwrap(probe.result).models

\* The keys of the records of the body an entry can come from.
RecordsOf(entry) ==
    {k \in DOMAIN probe.body :
        /\ probe.body[k].visible # Some(FALSE)
        /\ UnwrapOr(probe.body[k].model, k) = entry.request_model
        /\ probe.body[k].name = entry.display_name}

Positive(number) == IsSome(number) /\ Unwrap(number) > 0

\* C15: a discovered model has the upstream max-input-tokens as max_tokens
\* when that is present and greater than 0 and 200000 otherwise, and the
\* upstream max-output-tokens as max_output_tokens and max_completion_tokens
\* when that is present and greater than 0 and none otherwise, never 0.
C15_TokenLimits ==
    Listed =>
        \A i \in 1..Len(ListedModels) :
            LET entry == ListedModels[i]
            IN /\ \E k \in RecordsOf(entry) :
                      LET record == probe.body[k]
                      IN /\ entry.max_tokens =
                                (IF Positive(record.max_input_tokens)
                                 THEN Unwrap(record.max_input_tokens) ELSE 200000)
                         /\ entry.max_output_tokens =
                                (IF Positive(record.max_output_tokens)
                                 THEN record.max_output_tokens ELSE None)
               /\ entry.max_completion_tokens = entry.max_output_tokens
               /\ entry.max_output_tokens # Some(0)
               /\ entry.max_tokens > 0

\* A record with 0 for both limits was listed: 200000 and none.
C15_Witness ==
    /\ Listed
    /\ \E k \in DOMAIN probe.body :
           /\ probe.body[k].max_input_tokens = Some(0)
           /\ probe.body[k].max_output_tokens = Some(0)
    /\ Len(ListedModels) = 1
    /\ ListedModels[1].max_tokens = 200000
    /\ ListedModels[1].max_output_tokens = None

\* The names and identifiers the models are ordered by, in ascending byte
\* order (upper case before lower case).
DisplayOrder == <<"Zed", "a", "b", "c", "e", "f", "m">>
DisplayRank(name) == CHOOSE i \in 1..Len(DisplayOrder) : DisplayOrder[i] = name

IsDefaultModel(model) == model.request_model = NANOGPT_DEFAULT_MODEL_ID

\* C16: the models fetch_nanogpt_models returns are the visible records of
\* the body, those with the default identifier first and the others after
\* them in ascending case-sensitive order of display name, or of upstream
\* identifier when there is no display name.
C16_Stage1Order ==
    Listed =>
        /\ Len(ListedModels) =
               Cardinality({k \in DOMAIN probe.body : probe.body[k].visible # Some(FALSE)})
        /\ \A i \in 1..Len(ListedModels) : RecordsOf(ListedModels[i]) # {}
        /\ (\E i \in 1..Len(ListedModels) : IsDefaultModel(ListedModels[i]))
               => IsDefaultModel(ListedModels[1])
        /\ \A i, j \in 1..Len(ListedModels) :
               i < j =>
                   \/ IsDefaultModel(ListedModels[i])
                   \/ /\ ~IsDefaultModel(ListedModels[j])
                      /\ DisplayRank(UnwrapOr(ListedModels[i].display_name,
                                               ListedModels[i].request_model))
                             <= DisplayRank(UnwrapOr(ListedModels[j].display_name,
                                                     ListedModels[j].request_model))

\* The record of the last key has the default identifier and is listed
\* first, before a model named "Zed" and a model ordered by its key.
C16_Witness ==
    /\ Listed
    /\ Len(ListedModels) = 3
    /\ probe.body[KeyNames[3]].model = Some(NANOGPT_DEFAULT_MODEL_ID)
    /\ IsDefaultModel(ListedModels[1])
    /\ ListedModels[2].display_name = Some("Zed")
    /\ ListedModels[3].display_name = None
    /\ ListedModels[3].request_model = KeyNames[1]

\* The spellings of the two capability tokens among the tokens in use.
ToolCallingSpellings == {"tool-calling", "TOOL-CALLING", "Tool-Calling"}
VisionSpellings == {"vision", "Vision"}

\* C17: a discovered model has tools and parallel_tool_calls exactly when a
\* capability token of its record is a spelling of tool-calling, images
\* exactly when one is a spelling of vision, chat_completions always and
\* prompt_cache_key never.
C17_Capabilities ==
    Listed =>
        \A i \in 1..Len(ListedModels) :
            \E k \in RecordsOf(ListedModels[i]) :
                LET tokens == Range(probe.body[k].capabilities)
                    tools == tokens \cap ToolCallingSpellings # {}
                IN ListedModels[i].capabilities =
                       [tools |-> tools,
                        images |-> tokens \cap VisionSpellings # {},
                        parallel_tool_calls |-> tools,
                        prompt_cache_key |-> FALSE,
                        chat_completions |-> TRUE]

\* A record with the token TOOL-CALLING and no vision token was listed.
C17_Witness ==
    /\ Listed
    /\ Len(ListedModels) = 1
    /\ \E k \in DOMAIN probe.body : probe.body[k].capabilities = <<"tools", "TOOL-CALLING">>
    /\ ListedModels[1].capabilities.tools
    /\ ListedModels[1].capabilities.parallel_tool_calls
    /\ ~ListedModels[1].capabilities.images
    /\ ListedModels[1].capabilities.chat_completions
    /\ ~ListedModels[1].capabilities.prompt_cache_key

\* The providers the routing-options endpoint lists for a model.
ExpectedProviders(model) ==
    fetch_nanogpt_model_providers(
        Reply(TRUE, 200, Some(ProvidersBody(model.request_model)))).providers

BaseEntries(models) == SelectSeq(models, LAMBDA m : m.provider_override = None)

\* Task c performs the step that publishes its expanded list.
Publishes(c) ==
    /\ c \in 1..Len(cycles)
    /\ cycles[c].st = "s2"
    /\ cycles'[c].st = "ok"

\* C6: the list a Stage-2 task publishes has the base entries in the order of
\* its Stage-1 list, each followed by its routed entries in ascending order
\* of provider, whatever the order in which the fetches completed.
C6_PublishedOrder ==
    [][\A c \in 1..Len(cycles) :
          Publishes(c) =>
              /\ BaseEntries(dynamic_models') = cycles[c].models
              /\ \A k \in 1..Len(dynamic_models') :
                     IsSome(dynamic_models'[k].provider_override) =>
                         /\ k > 1
                         /\ dynamic_models'[k - 1].request_model
                                = dynamic_models'[k].request_model
                         /\ IsSome(dynamic_models'[k - 1].provider_override) =>
                                StrCmp(Unwrap(dynamic_models'[k - 1].provider_override),
                                       Unwrap(dynamic_models'[k].provider_override)) = -1
      ]_vars

\* C7: a Stage-2 task never ends in an error; a fetch that fails adds its
\* model with no providers and leaves the results of the others as they are;
\* the published list has every model of the Stage-1 list, the routed entries
\* of every model whose fetch succeeded, and no other routed entry.
C7_FailedFetchIsContained ==
    [][\A c \in 1..Len(cycles) :
          cycles[c].st = "s2" =>
              LET cy == cycles[c]
                  after == cycles'[c]
              IN /\ after.st \in {"s2", "ok"}
                 /\ (after.st = "s2" /\ after.results # cy.results) =>
                        \E i \in cy.inflight \ after.inflight :
                            after.results =
                                Append(cy.results,
                                       <<cy.models[i],
                                         IF i \in after.failed THEN <<>>
                                         ELSE ExpectedProviders(cy.models[i])>>)
                 /\ after.st = "ok" =>
                        /\ \A i \in 1..Len(cy.models) :
                               cy.models[i] \in Range(dynamic_models')
                        /\ \A j \in 1..Len(cy.results) :
                               \A p \in Range(cy.results[j][2]) :
                                   routed_model(cy.results[j][1], p)
                                       \in Range(dynamic_models')
                        /\ \A k \in 1..Len(dynamic_models') :
                               IsSome(dynamic_models'[k].provider_override) =>
                                   \E i \in 1..Len(cy.models) :
                                       \E p \in Range(ExpectedProviders(cy.models[i])) :
                                           dynamic_models'[k] = routed_model(cy.models[i], p)
      ]_vars

\* A published list in which one model has its routed entries and another,
\* for which the endpoint lists providers, has none: its fetch failed.
C7_Witness ==
    /\ \E c \in 1..Len(cycles) : cycles[c].st = "ok"
    /\ \E k \in 1..Len(dynamic_models) : IsSome(dynamic_models[k].provider_override)
    /\ \E k \in 1..Len(dynamic_models) :
           /\ dynamic_models[k].provider_override = None
           /\ ExpectedProviders(dynamic_models[k]) # <<>>
           /\ k < Len(dynamic_models) => dynamic_models[k + 1].provider_override = None

\* C8: default_model of the nanogpt provider is the first entry of
\* resolved_models() with the default identifier and no routing override when
\* there is one; otherwise, and for every other provider, it is the first
\* entry, and None only when resolved_models() is empty.
C8_DefaultModel ==
    LET models == resolved_models
        defaults == {i \in 1..Len(models) : IsDefaultEntry(models[i])}
    IN IF is_nanogpt(id) /\ defaults # {}
       THEN \E i \in defaults :
                /\ default_model = Some(models[i])
                /\ \A j \in defaults : i <= j
       ELSE IF models = <<>> THEN default_model = None
       ELSE default_model = Some(models[1])

\* The entry with the default identifier exists and is not the first entry.
C8_Witness ==
    /\ is_nanogpt(id)
    /\ resolved_models # <<>>
    /\ ~IsDefaultEntry(resolved_models[1])
    /\ \E i \in 1..Len(resolved_models) : IsDefaultEntry(resolved_models[i])

\* C9: the step in which a Stage-1 fetch fails leaves dynamic_models and the
\* Stage-2 task as they are and ends the task, which starts no Stage 2; the
\* step that starts a discovery task leaves dynamic_models as it is.
C9_Stage1FailureKeepsCatalog ==
    [][/\ \A c \in 1..Len(cycles) :
              (cycles[c].st = "s1" /\ cycles'[c].st = "err") =>
                  /\ dynamic_models' = dynamic_models
                  /\ fetch_provider_selection_task' = fetch_provider_selection_task
                  /\ \A d \in 1..Len(cycles) : cycles'[d].st = "s2_spawned"
                                                    => cycles[d].st = "s2_spawned"
       /\ \A c \in 1..Len(cycles) : cycles[c].st = "err" => cycles'[c].st = "err"
       /\ Len(cycles') > Len(cycles) => dynamic_models' = dynamic_models
      ]_vars

\* A discovery task has failed after an earlier one succeeded, and the list
\* is still there.
C9_Witness ==
    /\ dynamic_models # <<>>
    /\ \E c, d \in 1..Len(cycles) :
           c < d /\ cycles[c].st = "ok" /\ cycles[d].st = "err"

\* C10: the result a returned call of set_api_key / authenticate has given
\* is the result of its store or load, also when the discovery it started
\* has failed.
C10_ResultIsStoreOrLoadResult ==
    \A i \in 1..Len(ops) :
        ops[i].st = "returned" =>
            /\ ops[i].result \in {"ok", "err"}
            /\ ops[i].returned = ops[i].result

\* A call has returned Ok and the discovery it started has failed.
C10_Witness ==
    \E i \in 1..Len(ops) :
        /\ ops[i].st = "returned"
        /\ ops[i].returned = "ok"
        /\ ops[i].cycle # 0
        /\ cycles[ops[i].cycle].st = "err"

\* The task of cycle c is superseded: the field of the State that held its
\* handle holds another task or none.
Superseded(c) ==
    \/ cycles[c].st = "s1" /\ fetch_dynamic_models_task # Some(c)
    \/ cycles[c].st \in {"s2_spawned", "s2"} /\ fetch_provider_selection_task # Some(c)

\* C18: a superseded discovery task goes on: it can take the reply to its
\* request, and the step in which its Stage 1 succeeds or its Stage 2
\* finishes writes its models to dynamic_models, whatever a task started
\* after it has written.
C18_SupersededTaskStillWrites ==
    /\ [](\A c \in 1..Len(cycles) :
             Superseded(c) =>
                 /\ cycles[c].st = "s1" =>
                        ENABLED Stage1Complete(
                            c, Reply(TRUE, 200, Some(ModelsBody(upstream, cycles[c].api_url))))
                 /\ cycles[c].st = "s2_spawned" => ENABLED Stage2Start(c)
                 /\ cycles[c].st = "s2" =>
                        \A i \in cycles[c].inflight :
                            ENABLED FetchComplete(c, i, Reply(FALSE, 0, None)))
    /\ [][\A c \in 1..Len(cycles) :
              Superseded(c) =>
                  /\ (cycles[c].st = "s1" /\ cycles'[c].st \in {"s2_spawned", "ok"}) =>
                         dynamic_models' =
                             fetch_nanogpt_models(
                                 Reply(TRUE, 200,
                                       Some(ModelsBody(upstream, cycles[c].api_url)))).models
                  /\ Publishes(c) =>
                         Range(BaseEntries(dynamic_models')) = Range(cycles[c].models)
       ]_vars

\* Every task has ended, the settings point at u2, the task started last has
\* ended well, and dynamic_models holds the model only the catalog at u1 has:
\* the task of u1 wrote after the task of u2.
C18_Witness ==
    /\ AllSettled
    /\ settings.api_url = "u2"
    /\ Len(cycles) > 1
    /\ cycles[Len(cycles)].st = "ok"
    /\ ~cycles[Len(cycles)].alone
    /\ \E i \in 1..Len(dynamic_models) :
           dynamic_models[i].request_model = NANOGPT_DEFAULT_MODEL_ID

\* The entries of the Stage-2 expansion of the catalog at api_url when every
\* fetch succeeds.
ExpansionOf(api_url) ==
    LET models ==
            fetch_nanogpt_models(Reply(TRUE, 200, Some(ModelsBody(upstream, api_url)))).models
    IN Range(models)
           \cup UNION {{routed_model(models[i], p) :
                           p \in Range(ExpectedProviders(models[i]))} :
                          i \in 1..Len(models)}

\* Every task has ended, the provider is authenticated, and the fetches of
\* the task started last have succeeded.
LastCycleSucceeded ==
    /\ AllSettled
    /\ is_authenticated
    /\ cycles # <<>>
    /\ cycles[Len(cycles)].st = "ok"
    /\ cycles[Len(cycles)].clean

\* The claim as stated: once every task has ended, the provider being
\* authenticated and the fetches of the task started last having succeeded,
\* dynamic_models holds the entries of the expansion of that task, fetched at
\* the current url.
C19_LastStartedCycleWins ==
    LastCycleSucceeded => Range(dynamic_models) = ExpansionOf(settings.api_url)

\* C19: once every task has ended, the provider being authenticated, if the
\* task started last is the one the State holds in fetch_dynamic_models_task
\* (the last restart started it), every task started before it had ended when
\* it started, and its fetches have succeeded, then dynamic_models holds the
\* entries of the expansion of that task, fetched at the current url.
C19_LastCycleWinsWhenAlone ==
    (/\ LastCycleSucceeded
     /\ fetch_dynamic_models_task = Some(Len(cycles))
     /\ cycles[Len(cycles)].alone)
        => Range(dynamic_models) = ExpansionOf(settings.api_url)

\* A task started after an earlier one had ended has replaced the list of u1
\* by the expansion of the catalog at u2.
C19_Witness ==
    /\ LastCycleSucceeded
    /\ fetch_dynamic_models_task = Some(Len(cycles))
    /\ cycles[Len(cycles)].alone
    /\ Len(cycles) > 1
    /\ cycles[1].st = "ok"
    /\ settings.api_url = "u2"
    /\ \E i \in 1..Len(dynamic_models) : dynamic_models[i].id = "x@p"

\* The restart of the discovery made for call i in a step: a task is spawned
\* for i and held in fetch_dynamic_models_task, or, the provider not being
\* nanogpt or having no key, the list and both task handles are cleared.
Restarts(i) ==
    IF is_nanogpt(id) /\ has_key(api_key_state)
    THEN /\ Len(cycles') = Len(cycles) + 1
         /\ cycles'[Len(cycles')].trigger = i
         /\ cycles'[Len(cycles')].st = "s1"
         /\ fetch_dynamic_models_task' = Some(Len(cycles'))
    ELSE /\ dynamic_models' = <<>>
         /\ fetch_dynamic_models_task' = None
         /\ fetch_provider_selection_task' = None
         /\ cycles' = cycles

IsSetKey(i) == i <= Len(ops) /\ ops[i].kind = "set_key"

\* C20: a call of set_api_key restarts the discovery in the step in which its
\* task resumes after the store, whether the store gave Ok or an error; no
\* discovery task is started for it before that, and every call whose task is
\* waiting for its store is eventually past the restart.
C20_RestartAfterStore ==
    /\ [](\A i \in 1..Len(ops) :
             IsSetKey(i) =>
                 /\ ops[i].st = "ready" => ENABLED Resume(i)
                 /\ ops[i].st # "returned" =>
                        \A c \in 1..Len(cycles) : cycles[c].trigger # i)
    /\ [][\A i \in 1..Len(ops) :
              (IsSetKey(i) /\ ops[i].st # "returned" /\ ops'[i].st = "returned") =>
                  /\ ops[i].st = "ready"
                  /\ ops[i].result \in {"ok", "err"}
                  /\ Restarts(i)
       ]_vars
    /\ \A i \in 1..MaxOps :
           (IsSetKey(i) /\ ops[i].st # "returned")
               ~> (i <= Len(ops) /\ ops[i].st = "returned")

\* A call of set_api_key whose store failed has returned the error and a
\* discovery task was started for it.
C20_Witness ==
    \E i \in 1..Len(ops) :
        /\ IsSetKey(i)
        /\ ops[i].st = "returned"
        /\ ops[i].returned = "err"
        /\ ops[i].cycle # 0
        /\ cycles[ops[i].cycle].trigger = i

\* A step calls restart_dynamic_models_task: the task of a call resumes, or
\* the observer sees changed settings.
RestartStep ==
    \/ \E i \in 1..Len(ops) : ops[i].st = "ready" /\ ops'[i].st = "returned"
    \/ settings' # settings

\* C21: a restart of the discovery that finds no key clears dynamic_models
\* and both task handles and starts no task, so that no request goes to the
\* models-listing or routing-options endpoint for it.
C21_UnauthenticatedRestartClears ==
    [][(RestartStep /\ ~has_key(api_key_state')) =>
           /\ dynamic_models' = <<>>
           /\ fetch_dynamic_models_task' = None
           /\ fetch_provider_selection_task' = None
           /\ cycles' = cycles
      ]_vars

\* The key of the nanogpt provider was reset after a discovery had filled the
\* list: the restart of the reset has cleared it.
C21_Witness ==
    /\ is_nanogpt(id)
    /\ ~is_authenticated
    /\ settingsChanges = 0
    /\ InFlight = {}
    /\ \E c \in 1..Len(cycles) : cycles[c].st = "ok"
    /\ \E i \in 1..Len(ops) :
           /\ ops[i].kind = "set_key"
           /\ ops[i].st = "returned"
           /\ ops[i].cycle = 0
    /\ dynamic_models = <<>>
    /\ fetch_dynamic_models_task = None
    /\ fetch_provider_selection_task = None

\* C22: the Stage-2 task of a cycle is started by the step of its Stage 1
\* that writes the fetched list to dynamic_models, so that it is started with
\* dynamic_models equal to the list it expands, a list that is not empty; with
\* an empty list the step clears fetch_provider_selection_task and starts no
\* Stage 2; and the fan-out of a cycle begins only after that step.
C22_Stage2AfterStage1Write ==
    [][/\ \A c \in 1..Len(cycles) :
              /\ (cycles[c].st # "s2_spawned" /\ cycles'[c].st = "s2_spawned") =>
                     /\ cycles[c].st = "s1"
                     /\ cycles'[c].models # <<>>
                     /\ dynamic_models' = cycles'[c].models
                     /\ fetch_provider_selection_task' = Some(c)
              /\ (cycles[c].st = "s1" /\ cycles'[c].st = "ok") =>
                     /\ dynamic_models' = <<>>
                     /\ fetch_provider_selection_task' = None
              /\ (cycles[c].st # "s2" /\ cycles'[c].st = "s2") =>
                     /\ cycles[c].st = "s2_spawned"
                     /\ cycles'[c].models = cycles[c].models
                     /\ cycles'[c].inflight # {}
       /\ \A c \in 1..Len(cycles') : c > Len(cycles) => cycles'[c].st = "s1"
      ]_vars

\* The fan-out of a cycle has begun and dynamic_models is the list it expands.
C22_Witness ==
    \E c \in 1..Len(cycles) :
        /\ cycles[c].st = "s2"
        /\ cycles[c].results = <<>>
        /\ Len(cycles[c].models) > 1
        /\ dynamic_models = cycles[c].models
        /\ fetch_provider_selection_task = Some(c)

\* What the observer's restart does with the credential state aks and the
\* settings stg it has just written.
ObserverRestart(aks, stg) ==
    IF restart_spawns(aks)
    THEN /\ Len(cycles') = Len(cycles) + 1
         /\ SubSeq(cycles', 1, Len(cycles)) = cycles
         /\ cycles'[Len(cycles')].st = "s1"
         /\ cycles'[Len(cycles')].api_url = stg.api_url
         /\ cycles'[Len(cycles')].api_key = aks.key
         /\ fetch_dynamic_models_task' = Some(Len(cycles'))
         /\ UNCHANGED <<dynamic_models, fetch_provider_selection_task>>
    ELSE /\ dynamic_models' = <<>>
         /\ fetch_dynamic_models_task' = None
         /\ fetch_provider_selection_task' = None
         /\ cycles' = cycles

ObserverEffect(resolved) ==
    IF IsSome(resolved) /\ Unwrap(resolved) # settings
    THEN /\ settings' = Unwrap(resolved)
         /\ api_key_state' = handle_url_change(api_key_state, settings'.api_url)
         /\ api_key_state'.url = settings'.api_url
         /\ nanogpt_api_key_env' =
                (IF is_nanogpt(id) THEN key_for(api_key_state', settings'.api_url)
                 ELSE nanogpt_api_key_env)
         /\ ObserverRestart(api_key_state', settings')
    ELSE UNCHANGED <<settings, api_key_state, nanogpt_api_key_env, dynamic_models,
                     fetch_dynamic_models_task, fetch_provider_selection_task, cycles>>

\* C23: a settings-change notification rebinds the credential state to the
\* new URL, re-syncs the environment mirror and restarts discovery exactly
\* when the resolved settings differ from the stored ones; a notification
\* with an equal value, or with no settings for this provider, leaves
\* settings, credential state, dynamic_models and both handles unchanged.
C23_ObserverActsIffSettingsDiffer ==
    \A resolved \in Resolved(SettingsChoices) :
        /\ ENABLED (SettingsChanged(resolved) /\ ObserverEffect(resolved))
        /\ ~ENABLED (SettingsChanged(resolved) /\ ~ObserverEffect(resolved))

\* The observer has restarted the discovery of a provider whose catalog had
\* been discovered before.
C23_Witness ==
    /\ settingsChanges = 1
    /\ cycles # <<>>
    /\ cycles[Len(cycles)].trigger = 0
    /\ cycles[Len(cycles)].st = "s1"
    /\ fetch_dynamic_models_task = Some(Len(cycles))
    /\ \E c \in 1..Len(cycles) : cycles[c].st = "ok"
    /\ dynamic_models # <<>>

IsAuthenticate(i) == i <= Len(ops) /\ ops[i].kind = "authenticate"

\* A step is a call of authenticate.
AuthenticateStep == Len(ops') = Len(ops) + 1 /\ ops'[Len(ops')].kind = "authenticate"

HasRouted(models) == \E i \in 1..Len(models) : IsSome(models[i].provider_override)

\* A step starts a Stage-1 fetch.
Stage1Begins == Len(cycles') = Len(cycles) + 1

\* C25 as stated: the step that starts a new Stage-1 fetch while the stored
\* catalog is routing-expanded leaves no routed entry in it.
C25_ClearedWhenStage1Begins ==
    [][(Stage1Begins /\ HasRouted(dynamic_models)) => ~HasRouted(dynamic_models')]_vars

\* C25, amended: the step that starts a new Stage-1 fetch leaves the stored
\* catalog as it is; the expanded catalog is replaced by the base models in
\* the step in which that fetch completes with success, and is kept when it
\* fails; and from a catalog of base models only, routed entries come back
\* only with the publication that ends the Stage 2 of a cycle.
C25_ReplacedWhenStage1Completes ==
    [][/\ Stage1Begins => dynamic_models' = dynamic_models
       /\ \A c \in 1..Len(cycles) :
              /\ (cycles[c].st = "s1" /\ cycles'[c].st \in {"s2_spawned", "ok"}) =>
                     /\ ~HasRouted(dynamic_models')
                     /\ dynamic_models' = cycles'[c].models
              /\ (cycles[c].st = "s1" /\ cycles'[c].st = "err") =>
                     dynamic_models' = dynamic_models
       /\ (~HasRouted(dynamic_models) /\ HasRouted(dynamic_models')) =>
              \E c \in 1..Len(cycles) : cycles[c].st = "s2" /\ cycles'[c].st = "ok"
      ]_vars

\* A new Stage-1 fetch is running and the expanded catalog of an earlier
\* cycle is still stored.
C25_Witness ==
    /\ cycles # <<>>
    /\ cycles[Len(cycles)].st = "s1"
    /\ fetch_dynamic_models_task = Some(Len(cycles))
    /\ \A c \in 1..(Len(cycles) - 1) : cycles[c].st \in {"ok", "err"}
    /\ HasRouted(dynamic_models)

\* C26: a request made on a handle whose model has a routing override carries
\* the billing mode "paygo" and exactly the two headers X-Provider, with the
\* override, and X-Billing-Mode, with "paygo"; a request made on a handle
\* without override carries no extra header and the billing mode it was built
\* with; and what is sent upstream carries these headers and this billing
\* mode.  This holds for stream_completion and for stream_response.
C26_RoutingHeadersAndBilling ==
    \A r \in BagToSet(requests) :
        LET model == handles[r.handle].model
        IN /\ r.shape \in {"chat_completions", "responses"}
           /\ IF IsSome(model.provider_override)
              THEN /\ r.billing_mode = Some("paygo")
                   /\ r.additional_headers =
                          <<<<"X-Provider", Unwrap(model.provider_override)>>,
                            <<"X-Billing-Mode", "paygo">>>>
              ELSE /\ r.billing_mode = r.built
                   /\ r.additional_headers = <<>>
           /\ IsSome(r.wire) =>
                  /\ Unwrap(r.wire).endpoint = r.shape
                  /\ Unwrap(r.wire).headers = r.additional_headers
                  /\ Unwrap(r.wire).billing_mode = r.billing_mode

\* A request of the responses shape has been sent on a handle with a routing
\* override, and a request built with a billing mode has been sent on a handle
\* without one.
C26_Witness ==
    /\ \E r \in BagToSet(requests) :
           /\ r.shape = "responses"
           /\ IsSome(handles[r.handle].model.provider_override)
           /\ r.st = "sent"
    /\ \E r \in BagToSet(requests) :
           /\ r.shape = "chat_completions"
           /\ handles[r.handle].model.provider_override = None
           /\ r.built = Some("subscription")
           /\ r.st = "sent"

\* The list a Stage-1 fetch at api_url gives.
Stage1List(api_url) ==
    fetch_nanogpt_models(Reply(TRUE, 200, Some(ModelsBody(upstream, api_url)))).models

\* What a Stage-2 run pushes for one base model: the model, followed by its
\* routed entries when its fetch succeeded.
Blocks(model) ==
    {<<model>> \o routed_models(model, providers) :
        providers \in {<<>>, ExpectedProviders(model)}}

\* models is the blocks of the base models base[i], i in remaining, one block
\* for each, in some order.
RECURSIVE IsExpansionOf(_, _, _)
IsExpansionOf(models, base, remaining) ==
    IF remaining = {} THEN models = <<>>
    ELSE \E i \in remaining :
             \E block \in Blocks(base[i]) :
                 /\ Len(block) <= Len(models)
                 /\ SubSeq(models, 1, Len(block)) = block
                 /\ IsExpansionOf(SubSeq(models, Len(block) + 1, Len(models)), base,
                                  remaining \ {i})

IsStage1Output(models) == \E api_url \in Urls : models = Stage1List(api_url)

IsStage2Output(models) ==
    \E api_url \in Urls :
        IsExpansionOf(models, Stage1List(api_url), 1..Len(Stage1List(api_url)))

\* C27: dynamic_models is always empty, or the whole list of one Stage-1
\* fetch, or the whole expansion of one Stage-2 run (every base model of one
\* Stage-1 list, each with the routed entries of its own fetch); it is never
\* a part of a list nor made of the lists of two cycles.
C27_WholeListOfOneCycle ==
    \/ dynamic_models = <<>>
    \/ IsStage1Output(dynamic_models)
    \/ IsStage2Output(dynamic_models)

\* A Stage-2 run has collected some of its results and has requests in
\* flight, while dynamic_models holds the expansion a cycle at the other url
\* has published.
C27_Witness ==
    \E c \in 1..Len(cycles) :
        /\ cycles[c].st = "s2"
        /\ cycles[c].results # <<>>
        /\ cycles[c].inflight # {}
        /\ HasRouted(dynamic_models)
        /\ IsStage2Output(dynamic_models)
        /\ ~IsExpansionOf(dynamic_models, cycles[c].models, 1..Len(cycles[c].models))

\* The base entry of the entry at position k of models: the last entry
\* without override before it; 0 when there is none.
BaseOf(models, k) ==
    LET bases == {j \in 1..(k - 1) : models[j].provider_override = None}
    IN IF bases = {} THEN 0
       ELSE CHOOSE j \in bases : \A i \in bases : i <= j

\* C28: in dynamic_models, an entry with the routing override p has p
\* non-empty, the id "<request_model>@p", the display name "<name> via p"
\* where <name> is the display name of its base entry, or the request_model
\* when that has none, and the token limits and capabilities of its base
\* entry, which has the same request_model; an entry without override has its
\* request_model as id.
C28_RoutedEntryShape ==
    \A k \in 1..Len(dynamic_models) :
        LET entry == dynamic_models[k]
        IN IF entry.provider_override = None
           THEN entry.id = entry.request_model
           ELSE LET p == Unwrap(entry.provider_override)
                    b == BaseOf(dynamic_models, k)
                IN /\ p # ""
                   /\ entry.id = entry.request_model \o "@" \o p
                   /\ b # 0
                   /\ dynamic_models[b].request_model = entry.request_model
                   /\ entry.display_name =
                          Some(UnwrapOr(dynamic_models[b].display_name,
                                        entry.request_model) \o " via " \o p)
                   /\ entry.max_tokens = dynamic_models[b].max_tokens
                   /\ entry.max_output_tokens = dynamic_models[b].max_output_tokens
                   /\ entry.max_completion_tokens =
                          dynamic_models[b].max_completion_tokens
                   /\ entry.capabilities = dynamic_models[b].capabilities

\* The published catalog holds a routed entry of a base model that has a
\* display name and its own token limits.
C28_Witness ==
    \E k \in 1..Len(dynamic_models) :
        /\ dynamic_models[k].id = NANOGPT_DEFAULT_MODEL_ID \o "@a"
        /\ dynamic_models[k].display_name = Some("Default Model via a")
        /\ dynamic_models[k].max_tokens = 1000
        /\ dynamic_models[k].capabilities.images

\* A step of a completion request: it is made, dispatched, answered, or its
\* stream is dropped.
CompletionStep == requests' # requests

\* C29: no step of a completion request, whether the request ends in a
\* stream, in NoApiKey or in an error of the upstream, changes
\* dynamic_models, the credential state, the settings or the two discovery
\* task handles.
C29_CompletionLeavesStateAlone ==
    [][CompletionStep =>
           UNCHANGED <<dynamic_models, api_key_state, settings,
                       fetch_dynamic_models_task, fetch_provider_selection_task,
                       nanogpt_api_key_env, cycles>>]_vars

\* One request has ended in an error of the upstream and the stream of
\* another was dropped, while the provider holds a discovered catalog, its
\* key and the handle of the Stage-2 task.
C29_Witness ==
    /\ \E r \in BagToSet(requests) : r.outcome = Some([error |-> "HttpError"])
    /\ \E r \in BagToSet(requests) : r.outcome = Some([stream |-> "dropped"])
    /\ dynamic_models # <<>>
    /\ is_authenticated
    /\ IsSome(fetch_provider_selection_task)

\* Cycle c is in its Stage-2 run.
InStage2(c) == c <= Len(cycles) /\ cycles[c].st = "s2"

\* C30: during a Stage-2 run at most 8 routing-options requests are in
\* flight; the requests started are those in flight and those that have
\* returned, no model twice; after the first 8, one request starts in the
\* step in which one of 8 in flight returns, and in no other step; when the
\* run ends a request has been started for every model of the Stage-1 list,
\* once; and, each request returning, the request of every model is
\* eventually started.
C30_BoundedFanOut ==
    /\ [](\A c \in 1..Len(cycles) :
             InStage2(c) =>
                 LET cy == cycles[c]
                 IN /\ Cardinality(cy.inflight) <= 8
                    /\ cy.inflight \subseteq Range(cy.sent)
                    /\ Range(cy.sent) \subseteq 1..Len(cy.models)
                    /\ Cardinality(Range(cy.sent)) = Len(cy.sent)
                    /\ Len(cy.sent) = Len(cy.results) + Cardinality(cy.inflight)
                    /\ Len(cy.sent) < Len(cy.models) => Cardinality(cy.inflight) = 8)
    /\ [][\A c \in 1..Len(cycles) :
              /\ (InStage2(c) /\ cycles'[c].st = "s2" /\ cycles'[c].sent # cycles[c].sent) =>
                     /\ Len(cycles'[c].results) = Len(cycles[c].results) + 1
                     /\ Len(cycles'[c].sent) = Len(cycles[c].sent) + 1
                     /\ SubSeq(cycles'[c].sent, 1, Len(cycles[c].sent)) = cycles[c].sent
                     /\ Cardinality(cycles[c].inflight) = 8
              /\ (InStage2(c) /\ cycles'[c].st = "ok") =>
                     /\ Range(cycles[c].sent) = 1..Len(cycles[c].models)
                     /\ Len(cycles[c].sent) = Len(cycles[c].models)
       ]_vars
    /\ \A i \in 1..MaxWide :
           (\E c \in 1..Len(cycles) :
                /\ cycles[c].st \in {"s2_spawned", "s2"}
                /\ i <= Len(cycles[c].models)
                /\ i \notin Range(cycles[c].sent))
               ~> (\E c \in 1..Len(cycles) : InStage2(c) /\ i \in Range(cycles[c].sent))

\* The request of the ninth model has been started after one of the first
\* eight returned, and eight requests are in flight.
C30_Witness ==
    \E c \in 1..Len(cycles) :
        /\ InStage2(c)
        /\ Len(cycles[c].models) > 8
        /\ Len(cycles[c].results) = 1
        /\ Len(cycles[c].sent) = 9
        /\ Cardinality(cycles[c].inflight) = 8
        /\ 9 \in cycles[c].inflight

\* The key resolved for the current base URL.
ResolvedKey == key_for(api_key_state, settings.api_url)

\* C31 as stated: for the nanogpt provider, once every call and every task
\* it started has ended, the environment variable holds the key resolved for
\* the current base URL, and is unset when there is none; another provider
\* never writes the variable.
C31_MirrorHoldsResolvedKey ==
    /\ [](is_nanogpt(id) /\ AllSettled => nanogpt_api_key_env = ResolvedKey)
    /\ [][~is_nanogpt(id) => nanogpt_api_key_env' = nanogpt_api_key_env]_vars

\* What does hold of the mirror: the step in which the task of set_api_key
\* or authenticate resumes, and the step of the observer that sees changed
\* settings, leave in the variable the key resolved at that step; a key
\* that a load started by handle_url_change brings later is not mirrored.
C31_MirrorSyncedAtRestart ==
    [][/\ (is_nanogpt(id) /\ RestartStep) => nanogpt_api_key_env' = ResolvedKey'
       /\ ~is_nanogpt(id) => nanogpt_api_key_env' = nanogpt_api_key_env]_vars

\* The static models in the order of the settings, a model whose name an
\* earlier one has being left out.
StaticModels ==
    LET available == settings.available_models
        first == {j \in 1..Len(available) :
                     \A i \in 1..(j - 1) : available[i].name # available[j].name}
    IN [k \in 1..Cardinality(first) |->
           from_available_model(
               available[CHOOSE j \in first :
                             Cardinality({i \in first : i <= j}) = k])]

\* C32: for a provider other than nanogpt, in every reachable state
\* dynamic_models is empty, both task handles are None, no discovery task
\* was ever started, and resolved_models() is the static models in the order
\* of the settings with the later models of an id already present left out.
C32_OtherProviderIsStatic ==
    ~is_nanogpt(id) =>
        /\ dynamic_models = <<>>
        /\ fetch_dynamic_models_task = None
        /\ fetch_provider_selection_task = None
        /\ cycles = <<>>
        /\ resolved_models = StaticModels

\* A provider other than nanogpt holds a key, the task of a credential call
\* has run its restart, the settings have changed, and two of its static
\* models have the same name.
C32_Witness ==
    /\ ~is_nanogpt(id)
    /\ is_authenticated
    /\ \E i \in 1..Len(ops) : ops[i].st = "returned"
    /\ settingsChanges = 1
    /\ Len(StaticModels) < Len(settings.available_models)
    /\ Len(StaticModels) > 1

\* Request r read no key and waits for the limiter of its handle.
KeylessQueued(r) == r.st = "queued" /\ r.api_key = None

\* C33: a request that read no key gets its NoApiKey from the async block the
\* limiter runs: while 4 requests of its handle hold the permits it can not
\* be dispatched and stays queued, without outcome; with a permit free it can
\* be dispatched; and the step that gives it NoApiKey is its dispatch, taken
\* with fewer than 4 permits of its handle held.
C33_NoApiKeyAfterPermit ==
    /\ [](\A r \in BagToSet(requests) :
             KeylessQueued(r) =>
                 /\ r.outcome = None
                 /\ ENABLED Dispatch(r) <=> Holding(r.handle) < 4)
    /\ [][\A r \in BagToSet(requests) :
              KeylessQueued(r) =>
                  /\ Holding(r.handle) >= 4 =>
                         CopiesIn(r, requests') >= CopiesIn(r, requests)
                  /\ Dispatched(r) =>
                         /\ Holding(r.handle) < 4
                         /\ CopiesIn([r EXCEPT !.st = "done",
                                               !.outcome = Some(NoApiKey(r.provider))],
                                     requests') > 0
       ]_vars

\* A request that read no key is queued on a handle of which 4 requests hold
\* the permits.
C33_Witness ==
    \E r \in BagToSet(requests) :
        /\ KeylessQueued(r)
        /\ Holding(r.handle) = 4

\* The requests made on handle h that were dispatched and are not over.
InFlightOn(h) ==
    LET open == {r \in BagToSet(requests) :
                    r.handle = h /\ r.st \notin {"queued", "done"}}
    IN BagCardinality([r \in open |-> requests[r]])

\* The handles other than h that were built for the model id of h.
Twins(h) == {g \in 1..Len(handles) : g # h /\ handles[g].id = handles[h].id}

\* C34: every call that hands out a handle appends a new one, with a limiter
\* of 4 permits none of which is held, and leaves the older handles and
\* their requests as they are; a queued request can be dispatched exactly
\* when fewer than 4 requests of its own handle are in flight, however many
\* are in flight on the other handles of the same model id.
C34_LimiterPerHandle ==
    /\ [](/\ \A h \in 1..Len(handles) :
                /\ handles[h].request_limiter = RateLimiter_new(4)
                /\ InFlightOn(h) <= 4
          /\ \A r \in BagToSet(requests) :
                /\ r.handle \in 1..Len(handles)
                /\ r.st = "queued" =>
                       (ENABLED Dispatch(r) <=> InFlightOn(r.handle) < 4))
    /\ [][Len(handles') # Len(handles) =>
              /\ Len(handles') = Len(handles) + 1
              /\ SubSeq(handles', 1, Len(handles)) = handles
              /\ requests' = requests
              /\ \A r \in BagToSet(requests') : r.handle # Len(handles')
       ]_vars

\* Two handles of one model id: 4 requests in flight on the one, and a fifth
\* request of that model id in flight on the other, which was dispatched
\* while the 4 held their permits.
C34_Witness ==
    \E h \in 1..Len(handles) : \E g \in Twins(h) :
        /\ InFlightOn(h) = 4
        /\ InFlightOn(g) >= 1

=============================================================================
